---- MODULE Spec2Model ----
(***************************************************************************)
(* Result computation engine of the Student Management System:             *)
(* SemesterResultService.compute_and_store_semester_results and            *)
(* YearlyResultService.compute_and_store_yearly_results over the SQLite    *)
(* tables of database/schema.py, together with the CRUD operations that    *)
(* feed them.                                                              *)
(*                                                                         *)
(* Marks, totals and averages are IEEE doubles, held exactly (see below).   *)
(* Exam names are sequences of characters; a substring test is             *)
(* case-sensitive for Python's "in" and case-insensitive for SQLite's      *)
(* LIKE.                                                                   *)
(***************************************************************************)
EXTENDS Integers, Sequences, FiniteSets, TLC

VARIABLES
    students,         \* table Students: rows [id, current_grade_id]
    enrollments,      \* table Enrollments: rows [student_id, academic_year_id, grade_id]
    subjects,         \* table Subjects: set of ids
    exams,            \* table Exams: rows [id, name, academic_year_id, semester_id, max_marks]
    examResults,      \* table ExamResults: rows [student_id, exam_id, subject_id, marks]
    semesterResults,  \* table SemesterResults: rows with id and computed fields
    yearlyResults,    \* table YearlyResults: rows with id and computed fields
    srSeq,            \* sqlite_sequence of SemesterResults (last AUTOINCREMENT id)
    yrSeq,            \* sqlite_sequence of YearlyResults
    stSeq,            \* sqlite_sequence of Students
    subSeq,           \* sqlite_sequence of Subjects
    exSeq,            \* sqlite_sequence of Exams
    lastOp,           \* the operation that produced this state
    outcome,          \* what the last add_exam_result or compute run gave its caller
    ops,              \* the data-entry operations performed so far, weighted
    run               \* the compute run in progress: its position and local variables

vars == <<students, enrollments, subjects, exams, examResults, semesterResults,
          yearlyResults, srSeq, yrSeq, stSeq, subSeq, exSeq, lastOp, outcome, ops,
          run>>

(***************************************************************************)
(* Bounds of the model.                                                    *)
(***************************************************************************)
MaxOps == 3

(***************************************************************************)
(* IEEE double arithmetic.  A double x that the computations produce from  *)
(* whole marks is held exactly as <<n, d, t, u, k>>, standing for          *)
(*     x = n/d + (t/u) * 2^(-k)                                            *)
(* where n/d, in lowest terms, is the value the computation has in exact   *)
(* arithmetic and (t/u) * 2^(-k) is the rounding error accumulated so far  *)
(* (t and u odd and coprime, or t = 0, u = 1, k = 0 when x is exact).      *)
(* Every operation rounds its exact result to the nearest double, ties to  *)
(* even, as Python's float operations do.  The form is unique, so two      *)
(* doubles are equal exactly when their tuples are.  The marks of the      *)
(* model keep n, d, t and u within the 32-bit integers of TLC.             *)
(* Operands and intermediate values are bound with                         *)
(* CHOOSE r \in {F(v) : v \in {e}} : TRUE, which evaluates e once.         *)
(***************************************************************************)
RECURSIVE GCD(_, _)
GCD(a, b) ==
    IF b = 0 THEN a ELSE CHOOSE r \in {GCD(x, y) : x \in {b}, y \in {a % b}} : TRUE

Abs(n) == IF n < 0 THEN -n ELSE n

Sign(n) == IF n > 0 THEN 1 ELSE IF n < 0 THEN -1 ELSE 0

\* the fraction n/d in lowest terms
Norm(n, d) ==
    IF n = 0 THEN <<0, 1>>
    ELSE CHOOSE r \in {<<n \div g, d \div g>> : g \in {GCD(Abs(n), d)}} : TRUE

\* 2^s modulo m
RECURSIVE PowMod(_, _)
PowMod(s, m) ==
    IF s = 0 THEN 1 % m
    ELSE CHOOSE r \in {(((h * h) % m) * (IF s % 2 = 1 THEN 2 ELSE 1)) % m :
                        h \in {PowMod(s \div 2, m)}} : TRUE

\* floor(log2(n/d)) for n/d > 0: the exponent of the binade of n/d
RECURSIVE Log2Floor(_, _)
Log2Floor(n, d) ==
    IF n >= 2 * d THEN 1 + Log2Floor(n, 2 * d)
    ELSE IF n < d THEN Log2Floor(2 * n, d) - 1
    ELSE 0

\* the number of factors 2 of n # 0
RECURSIVE Twos(_)
Twos(n) == IF n % 2 = 0 THEN 1 + Twos(n \div 2) ELSE 0

\* (t/u) * 2^j in lowest terms
Scale(t, u, j) == IF j >= 0 THEN Norm(t * 2^j, u) ELSE Norm(t, u * 2^(-j))

\* the unique form of n/d + (t/u) * 2^(-k)
Canon(n, d, t, u, k) ==
    IF t = 0 THEN <<n, d, 0, 1, 0>>
    ELSE CHOOSE x \in {<<n, d, r[1] \div 2^Twos(r[1]), r[2] \div 2^Twos(r[2]),
                         k + Twos(r[2]) - Twos(r[1])>> : r \in {Norm(t, u)}} : TRUE

\* the exponent x of the binade of v = n/d + (a/b) * 2^(-k) + sg * (less),
\* 2^x <= v < 2^(x+1): that of n/d, or one less when n/d is a power of 2 and
\* v is below it
Exponent(n, d, a, sg) ==
    CHOOSE r \in {IF (a < 0 \/ (a = 0 /\ sg < 0))
                     /\ (IF x >= 0 THEN n = d * 2^x ELSE n * 2^(-x) = d)
                  THEN x - 1 ELSE x : x \in {Log2Floor(n, d)}} : TRUE

\* the integer nearest to i + f[1]/f[2] + sg * (less), ties to even, less i;
\* parity is that of i, f0 the floor of f[1]/f[2]
Nearest(f, f0, parity, sg) ==
    IF 2 * (f[1] - f0 * f[2]) < f[2] THEN f0
    ELSE IF 2 * (f[1] - f0 * f[2]) > f[2] THEN f0 + 1
    ELSE IF sg > 0 THEN f0 + 1
    ELSE IF sg < 0 THEN f0
    ELSE IF (parity + f0) % 2 = 0 THEN f0 ELSE f0 + 1

\* The double nearest to v = q + (e[1]/e[2]) * 2^(-e[3]) + sg * (something
\* smaller than any rounding boundary can resolve), ties to even; q = <<n, d>>
\* is positive and in lowest terms.  With 2^x <= v < 2^(x+1) and s = 52 - x
\* the double is the integer nearest to v * 2^s, divided by 2^s.
\* n * 2^s / d = i + r/d with i an integer whose parity, like r, is read off
\* r2 = (n * 2^s) mod 2d; f is r/d plus the error term scaled by 2^s.
RoundF(q, s, r2, f, sg) ==
    Canon(q[1], q[2],
          Nearest(f, f[1] \div f[2], r2 \div q[2], sg) * q[2] - (r2 % q[2]), q[2], s)

RoundS(q, e, sg, s, r2) ==
    CHOOSE r \in {RoundF(q, s, r2, f, sg) :
                    f \in {IF e[1] = 0 THEN <<r2 % q[2], q[2]>>
                           ELSE CHOOSE g \in {Norm((r2 % q[2]) * err[2] + err[1] * q[2],
                                                   q[2] * err[2]) :
                                                 err \in {Scale(e[1], e[2], s - e[3])}} :
                                    TRUE}} : TRUE

RoundV(q, e, sg, s) ==
    CHOOSE r \in {RoundS(q, e, sg, s, r2) :
                    r2 \in {((q[1] % (2 * q[2])) * PowMod(s, 2 * q[2])) % (2 * q[2])}} :
        TRUE

SmallPowersOf2 == {2^j : j \in 0..20}

\* a value with no error term and a denominator 2^j is a double already
Round(q, e, sg) ==
    CHOOSE r \in {IF ev[1] = 0 /\ qv[2] \in SmallPowersOf2
                  THEN <<qv[1], qv[2], 0, 1, 0>>
                  ELSE CHOOSE v \in {RoundV(qv, ev, sgv, s) :
                                       s \in {52 - Exponent(qv[1], qv[2], ev[1], sgv)}} :
                           TRUE :
                    qv \in {q}, ev \in {e}, sgv \in {sg}} : TRUE

\* the sum of two rounding errors <<t, u, k>>, each (t/u) * 2^(-k), with k
\* the larger of the two exponents
ErrSumK(x, y, k) ==
    CHOOSE r \in {<<c[1], c[2], k>> :
                    c \in {CHOOSE n \in {Norm(p[1] * q[2] + q[1] * p[2], p[2] * q[2]) :
                                           p \in {Scale(x[1], x[2], k - x[3])},
                                           q \in {Scale(y[1], y[2], k - y[3])}} : TRUE}} :
        TRUE

ErrSum(x, y) ==
    CHOOSE r \in {IF xv[1] = 0 THEN yv
                  ELSE IF yv[1] = 0 THEN xv
                  ELSE ErrSumK(xv, yv, IF xv[3] > yv[3] THEN xv[3] ELSE yv[3]) :
                    xv \in {x}, yv \in {y}} : TRUE

\* the rounding error of the double x
Err(x) == <<x[3], x[4], x[5]>>

\* float(n) for a whole number n
Rat(n) == <<n, 1, 0, 1, 0>>
RZero == <<0, 1, 0, 1, 0>>

\* x + y
RAdd(x, y) ==
    CHOOSE r \in {IF xv[1] = 0 THEN yv
                  ELSE IF yv[1] = 0 THEN xv
                  ELSE Round(Norm(xv[1] * yv[2] + yv[1] * xv[2], xv[2] * yv[2]),
                             ErrSum(Err(xv), Err(yv)), 0) :
                    xv \in {x}, yv \in {y}} : TRUE

\* x * c for a whole number c
RMulInt(x, c) ==
    CHOOSE r \in {IF xv[1] = 0 \/ cv = 0 THEN RZero
                  ELSE Round(Norm(xv[1] * cv, xv[2]),
                             Norm(xv[3] * cv, xv[4]) \o <<xv[5]>>, 0) :
                    xv \in {x}, cv \in {c}} : TRUE

\* The exact quotient of x = Q1 + e1 by y = Q2 + e2 is Q1/Q2, plus
\* e1/Q2 - e2 * Q1/Q2^2, plus a remainder of the sign of
\* -(e1 * Q2 - Q1 * e2) * e2 that is too small to matter except on a
\* rounding boundary.
RDivE(x, y, e) ==
    Round(Norm(x[1] * y[2], x[2] * y[1]), e, -(Sign(e[1]) * Sign(y[3])))

\* x / y for y > 0
RDiv(x, y) ==
    CHOOSE r \in {IF xv[1] = 0 THEN RZero
                  ELSE CHOOSE v \in {RDivE(xv, yv, e) :
                          e \in {ErrSum(Norm(xv[3] * yv[2], xv[4] * yv[1]) \o <<xv[5]>>,
                                        Norm(-(yv[3] * xv[1] * yv[2] * yv[2]),
                                             yv[4] * xv[2] * yv[1] * yv[1])
                                            \o <<yv[5]>>)}} : TRUE :
                    xv \in {x}, yv \in {y}} : TRUE

\* x / c for a whole number c > 0
RDivInt(x, c) == RDiv(x, Rat(c))

\* the sign of x - y
RCmp(x, y) ==
    CHOOSE r \in {IF xv[1] * yv[2] # yv[1] * xv[2]
                  THEN Sign(xv[1] * yv[2] - yv[1] * xv[2])
                  ELSE Sign(ErrSum(Err(xv), <<-yv[3], yv[4], yv[5]>>)[1]) :
                    xv \in {x}, yv \in {y}} : TRUE

RGt(x, y) == RCmp(x, y) > 0
RGe(x, y) == RCmp(x, y) >= 0

(***************************************************************************)
(* Exam names are strings, held as sequences of ASCII codes, and the two   *)
(* substring tests the code applies to them.                               *)
(***************************************************************************)
\* ASCII lower case of one character: "A".."Z" are 65..90, "a".."z" 97..122
Lower(c) == IF c >= 65 /\ c <= 90 THEN c + 32 ELSE c

\* the word w occurs in name at position i, whatever the case of the letters
LikeAt(name, w, i) == \A j \in 1..Len(w) : Lower(name[i + j - 1]) = Lower(w[j])

\* name LIKE '%w%' (SQLite LIKE is case-insensitive for ASCII)
Like(name, w) ==
    \E n \in {name} : \E i \in 1..(Len(n) - Len(w) + 1) : LikeAt(n, w, i)

\* name LIKE '%w1%w2%'
Like2(name, w1, w2) ==
    \E n \in {name} :
        \E i \in 1..(Len(n) - Len(w1) + 1) :
            /\ LikeAt(n, w1, i)
            /\ \E j \in (i + Len(w1))..(Len(n) - Len(w2) + 1) : LikeAt(n, w2, j)

\* w in name (Python, case-sensitive)
PyIn(w, name) ==
    \E i \in 1..(Len(name) - Len(w) + 1) : SubSeq(name, i, i + Len(w) - 1) = w

\* the words of the queries and the names of the exams of the model
\* "Semester"
Semester == <<83, 101, 109, 101, 115, 116, 101, 114>>
\* "Exam"
Exam == <<69, 120, 97, 109>>
\* "CAT"
CAT == <<67, 65, 84>>
\* " "
Sp == <<32>>
\* "Semester 1 Exam"
Semester1Exam == Semester \o Sp \o <<49>> \o Sp \o Exam
\* "Semester 1 Exam Paper 2"
Semester1ExamPaper2 == Semester1Exam \o Sp \o <<80, 97, 112, 101, 114, 32, 50>>
\* "Semester 1 CAT Exam"
Semester1CATExam == Semester \o Sp \o <<49>> \o Sp \o CAT \o Sp \o Exam
\* "Semester 1 Test"
Semester1Test == Semester \o Sp \o <<49>> \o Sp \o <<84, 101, 115, 116>>
\* "CAT 1"
CAT1 == CAT \o Sp \o <<49>>
\* "CAT 2"
CAT2 == CAT \o Sp \o <<50>>
\* "CAT 3"
CAT3 == CAT \o Sp \o <<51>>
\* "Quiz"
Quiz == <<81, 117, 105, 122>>
\* "Education Quiz"
EducationQuiz == <<69, 100, 117, 99, 97, 116, 105, 111, 110>> \o Sp \o Quiz

(***************************************************************************)
(* Helpers over finite sets.                                               *)
(***************************************************************************)
Min(S) == CHOOSE x \in S : \A y \in S : x <= y

RECURSIVE SortedSeq(_)
SortedSeq(S) == IF S = {} THEN <<>> ELSE <<Min(S)>> \o SortedSeq(S \ {Min(S)})

(***************************************************************************)
(* Queries of compute_and_store_semester_results.                          *)
(***************************************************************************)
ExamById(id) == CHOOSE e \in exams : e.id = id

\* query_students: Students JOIN Enrollments WHERE academic_year_id = ay.
\* SQLite scans the (student_id, academic_year_id) index of Enrollments, so
\* the rows come in ascending student id.
StudentsInYear(ay) ==
    LET ids == {s.id : s \in {t \in students :
                    \E e \in enrollments :
                        e.student_id = t.id /\ e.academic_year_id = ay}}
        row(i) == LET s == CHOOSE t \in students : t.id = i
                  IN  [student_id |-> i, grade_id |-> s.current_grade_id]
        order == SortedSeq(ids)
    IN  [k \in 1..Len(order) |-> row(order[k])]

\* query_exams: the relevance gate on the exams of the scope
SemesterExams(ay, sem) ==
    {e \in exams : e.academic_year_id = ay /\ e.semester_id = sem
                   /\ (Like(e.name, Semester) \/ Like(e.name, CAT))}

\* ExamResults JOIN Exams restricted to one student and one scope
ScopeResults(sid, ay, sem) ==
    {er \in examResults :
        er.student_id = sid
        /\ \E e \in exams : e.id = er.exam_id /\ e.academic_year_id = ay
                            /\ e.semester_id = sem}

\* query_student_results
StudentExamResults(sid, ay, sem) == ScopeResults(sid, ay, sem)

\* query_student_subjects (JOIN Subjects, DISTINCT): the subjects the student
\* has an entry for in the scope
StudentSubjects(sid, ay, sem) ==
    {er.subject_id : er \in ScopeResults(sid, ay, sem)} \cap subjects

\* the lowest exam id among the entries of rows for the subject
FirstExamOf(rows, sub) ==
    Min({er.exam_id : er \in {r \in rows : r.subject_id = sub}})

\* the subjects of subs in the order their first entry has in rows sorted by
\* (exam_id, subject_id)
RECURSIVE FirstAppearance(_, _)
FirstAppearance(rows, subs) ==
    IF subs = {} THEN <<>>
    ELSE CHOOSE r \in
           {<<first>> \o FirstAppearance(rows, subs \ {first}) :
              first \in {CHOOSE a \in subs : \A b \in subs :
                            \E ka \in {FirstExamOf(rows, a)},
                               kb \in {FirstExamOf(rows, b)} :
                                ka < kb \/ (ka = kb /\ a <= b)}} : TRUE

\* query_subjects_with_results (JOIN Subjects, DISTINCT, no ORDER BY): SQLite
\* walks the (student_id, exam_id, subject_id) index of ExamResults and
\* DISTINCT keeps the first row of every subject, so the list is in order of
\* first appearance in that index
SubjectsWithResults(sid, ay, sem) ==
    CHOOSE r \in {FirstAppearance(rows, StudentSubjects(sid, ay, sem)) :
                    rows \in {ScopeResults(sid, ay, sem)}} : TRUE

\* sem_exam_query: the rows matching LIKE '%Semester%Exam%'
SemExamRows(sid, sub, ay, sem) ==
    {er \in ScopeResults(sid, ay, sem) :
        er.subject_id = sub /\ Like2(ExamById(er.exam_id).name, Semester, Exam)}

\* sum(cat_scores), sum(cat_max_marks)
RECURSIVE SumMarks(_)
SumMarks(rows) ==
    IF rows = {} THEN RZero
    ELSE LET r == CHOOSE x \in rows : TRUE
         IN  RAdd(Rat(r.marks), SumMarks(rows \ {r}))

RECURSIVE SumMaxMarks(_)
SumMaxMarks(rows) ==
    IF rows = {} THEN RZero
    ELSE LET r == CHOOSE x \in rows : TRUE
         IN  RAdd(Rat(ExamById(r.exam_id).max_marks), SumMaxMarks(rows \ {r}))

\* a variant that adds up the rows of sem_exam_query
SemExamResultSummed(sid, sub, ay, sem) ==
    CHOOSE r \in {IF rows = {} THEN <<>>
                  ELSE <<[marks |-> SumMarks(rows)[1],
                          max_marks |-> SumMaxMarks(rows)[1]]>> :
                    rows \in {SemExamRows(sid, sub, ay, sem)}} : TRUE

\* fetch_one on sem_exam_query: SQLite walks the (student_id, exam_id,
\* subject_id) index of ExamResults, so the first row is that of the lowest
\* exam id.  <<>> stands for None.
SemExamResult(sid, sub, ay, sem) ==
    CHOOSE r \in {IF rows = {} THEN <<>>
                  ELSE LET first == CHOOSE er \in rows :
                                        \A o \in rows : er.exam_id <= o.exam_id
                       IN  <<[marks |-> first.marks,
                              max_marks |-> ExamById(first.exam_id).max_marks]>> :
                    rows \in {SemExamRows(sid, sub, ay, sem)}} : TRUE

\* cat_query: the rows matching LIKE '%CAT%'
CatResults(sid, sub, ay, sem) ==
    {er \in ScopeResults(sid, ay, sem) :
        er.subject_id = sub /\ Like(ExamById(er.exam_id).name, CAT)}

\* a variant of avg_cat_score that adds the CAT scores up
AvgCatScoreSummed(rows) == SumMarks(rows)

\* avg_cat_score = sum(cat_scores) / len(cat_scores) if cat_scores else 0.0
AvgCatScore(rows) ==
    IF rows = {} THEN RZero ELSE RDivInt(SumMarks(rows), Cardinality(rows))

\* avg_cat_max_marks
AvgCatMaxMarks(rows) ==
    IF rows = {} THEN RZero ELSE RDivInt(SumMaxMarks(rows), Cardinality(rows))

\* <<subject_total_for_semester, subject_possible_total_for_semester>> of one
\* iteration of the subject loop: sem_exam_result and the CAT rows are read
\* once
SubjectValues(sid, sub, ay, sem) ==
    CHOOSE r \in {<<RAdd(IF se = <<>> THEN RZero ELSE Rat(se[1].marks),
                         AvgCatScore(cats)),
                    RAdd(IF se = <<>> THEN RZero ELSE Rat(se[1].max_marks),
                         AvgCatMaxMarks(cats))>> :
                    se \in {SemExamResult(sid, sub, ay, sem)},
                    cats \in {CatResults(sid, sub, ay, sem)}} : TRUE

\* subject_total_for_semester
SubjectTotal(sid, sub, ay, sem) == SubjectValues(sid, sub, ay, sem)[1]

\* subject_possible_total_for_semester
SubjectPossible(sid, sub, ay, sem) == SubjectValues(sid, sub, ay, sem)[2]

\* the subjects that pass "if subject_possible_total_for_semester > 0"
CountedSubjects(sid, ay, sem) ==
    {sub \in StudentSubjects(sid, ay, sem) :
        RGt(SubjectPossible(sid, sub, ay, sem), RZero)}

\* a variant of the loop that counts every subject, whatever its possible total
RECURSIVE SubjectLoopCountAll(_, _, _, _, _)
SubjectLoopCountAll(sid, ay, sem, todo, acc) ==
    IF todo = <<>> THEN acc
    ELSE CHOOSE r \in
           {SubjectLoopCountAll(sid, ay, sem, Tail(todo), next) :
              next \in {CHOOSE n \in
                 {[total_semester_score |-> RAdd(acc.total_semester_score, v[1]),
                   total_possible_semester_score |->
                       RAdd(acc.total_possible_semester_score, v[2]),
                   num_subjects_counted |-> acc.num_subjects_counted + 1] :
                    v \in {SubjectValues(sid, Head(todo), ay, sem)}} : TRUE}} :
           TRUE

\* the loop over subjects_with_results, in the order of the list: the three
\* accumulators
RECURSIVE SubjectLoop(_, _, _, _, _)
SubjectLoop(sid, ay, sem, todo, acc) ==
    IF todo = <<>> THEN acc
    ELSE CHOOSE r \in
           {SubjectLoop(sid, ay, sem, Tail(todo), next) :
              next \in {CHOOSE n \in
                 {IF RGt(v[2], RZero)
                  THEN [total_semester_score |-> RAdd(acc.total_semester_score, v[1]),
                        total_possible_semester_score |->
                            RAdd(acc.total_possible_semester_score, v[2]),
                        num_subjects_counted |-> acc.num_subjects_counted + 1]
                  ELSE acc :
                    v \in {SubjectValues(sid, Head(todo), ay, sem)}} : TRUE}} :
           TRUE

StudentTotals(sid, ay, sem) ==
    SubjectLoop(sid, ay, sem, SubjectsWithResults(sid, ay, sem),
                [total_semester_score |-> RZero,
                 total_possible_semester_score |-> RZero,
                 num_subjects_counted |-> 0])

\* a variant that keeps every student with exam results in the scope
SurvivesAnyResult(sid, ay, sem, tot) ==
    StudentExamResults(sid, ay, sem) # {}

\* a student survives the three "continue" statements of the student loop;
\* tot holds the accumulators of the student's subject loop
Survives(sid, ay, sem, tot) ==
    /\ StudentExamResults(sid, ay, sem) # {}
    /\ StudentSubjects(sid, ay, sem) # {}
    /\ tot.num_subjects_counted # 0

\* a variant of average_score that keeps the fraction
AverageScoreFraction(total, possible) ==
    IF RGt(possible, RZero) THEN RDiv(total, possible) ELSE RZero

\* average_score = (total / possible) * 100 if possible > 0 else 0.0
AverageScore(total, possible) ==
    IF RGt(possible, RZero) THEN RMulInt(RDiv(total, possible), 100) ELSE RZero

\* student_semester_data after the student loop, in insertion order
RECURSIVE StudentLoop(_, _, _, _)
StudentLoop(inYear, k, ay, sem) ==
    IF k > Len(inYear) THEN <<>>
    ELSE LET sid == inYear[k].student_id
             entry(tot) == [student_id |-> sid,
                            total_marks |-> tot.total_semester_score,
                            average_score |->
                                AverageScore(tot.total_semester_score,
                                             tot.total_possible_semester_score),
                            grade_id |-> inYear[k].grade_id,
                            grade_rank |-> 0]
         IN  (CHOOSE r \in {IF Survives(sid, ay, sem, tot)
                            THEN <<entry(tot)>> ELSE <<>> :
                              tot \in {StudentTotals(sid, ay, sem)}} : TRUE)
             \o StudentLoop(inYear, k + 1, ay, sem)

(***************************************************************************)
(* Ranking per grade (the same walk in both services).                     *)
(***************************************************************************)
\* list.sort(key=average_score, reverse=True): a stable insertion of x
RECURSIVE InsertDesc(_, _)
InsertDesc(sorted, x) ==
    IF sorted = <<>> THEN <<x>>
    ELSE IF RGe(Head(sorted).average_score, x.average_score)
         THEN <<Head(sorted)>> \o InsertDesc(Tail(sorted), x)
         ELSE <<x>> \o sorted

RECURSIVE SortDesc(_)
SortDesc(seq) ==
    IF seq = <<>> THEN <<>>
    ELSE InsertDesc(SortDesc(SubSeq(seq, 1, Len(seq) - 1)), seq[Len(seq)])

\* a variant of students_in_grade that takes the students of every grade
InGradeAll(data, g) == data

\* students_in_grade: the entries of one grade, in dict order
InGrade(data, g) == SelectSeq(data, LAMBDA d : d.grade_id = g)

\* a variant of the walk that gives every position its own rank
RECURSIVE RankWalkNoTies(_, _, _, _)
RankWalkNoTies(sorted, i, current_rank, prev_score) ==
    IF i >= Len(sorted) THEN {}
    ELSE {<<sorted[i + 1].student_id, i + 1>>}
         \cup RankWalkNoTies(sorted, i + 1, i + 1, sorted[i + 1].average_score)

\* a variant of the walk that numbers the distinct scores 1, 2, 3, ...
RECURSIVE RankWalkDense(_, _, _, _)
RankWalkDense(sorted, i, current_rank, prev_score) ==
    IF i >= Len(sorted) THEN {}
    ELSE LET avg == sorted[i + 1].average_score
             rank == IF i = 0 THEN 1
                     ELSE IF avg # prev_score THEN current_rank + 1
                     ELSE current_rank
         IN  {<<sorted[i + 1].student_id, rank>>}
             \cup RankWalkDense(sorted, i + 1, rank, avg)

\* the walk with current_rank and the prev_score sentinel; i is 0-based as
\* in enumerate().  Returns the set of <<student_id, rank>> assignments.
RECURSIVE RankWalk(_, _, _, _)
RankWalk(sorted, i, current_rank, prev_score) ==
    IF i >= Len(sorted) THEN {}
    ELSE LET avg == sorted[i + 1].average_score
             rank == IF avg # prev_score THEN i + 1 ELSE current_rank
         IN  {<<sorted[i + 1].student_id, rank>>}
             \cup RankWalk(sorted, i + 1, rank, avg)

\* ranks of one grade: current_rank = 1, prev_score = -1
GradeRanks(data, g) == RankWalk(SortDesc(InGrade(data, g)), 0, 1, Rat(-1))

\* the loop over grades_in_year: every entry receives its grade_rank
AssignRanks(data) ==
    LET grades == {data[k].grade_id : k \in 1..Len(data)}
        rankOf(ranks, sid) == (CHOOSE p \in ranks : p[1] = sid)[2]
    IN  CHOOSE r \in
          {[k \in 1..Len(data) |->
              [data[k] EXCEPT !.grade_rank = rankOf(ranks, data[k].student_id)]] :
             ranks \in {UNION {GradeRanks(data, g) : g \in grades}}} : TRUE

(***************************************************************************)
(* add_semester_result and the store loop.                                 *)
(***************************************************************************)
\* a variant of the lookup that ignores the semester
SemesterRowsByStudentYear(table, sid, sem, ay) ==
    {r \in table : r.student_id = sid /\ r.academic_year_id = ay}

\* get_semester_result_by_composite_keys: the rows with that key
SemesterRowsByKey(table, sid, sem, ay) ==
    {r \in table : r.student_id = sid /\ r.semester_id = sem
                   /\ r.academic_year_id = ay}

\* a variant of add_semester_result that always inserts
AddSemesterResultAppend(st, sid, sem, ay, total, avg, rank) ==
    [table |-> st.table \cup
                   {[id |-> st.seq + 1, student_id |-> sid, semester_id |-> sem,
                     academic_year_id |-> ay, total_marks |-> total,
                     average_score |-> avg, grade_rank |-> rank]},
     seq |-> st.seq + 1]

\* a variant of add_semester_result whose update leaves grade_rank as it was
AddSemesterResultKeepRank(st, sid, sem, ay, total, avg, rank) ==
    LET existing == SemesterRowsByKey(st.table, sid, sem, ay)
    IN  IF existing # {}
        THEN [table |-> (st.table \ existing) \cup
                            {[r EXCEPT !.total_marks = total,
                                       !.average_score = avg] : r \in existing},
              seq |-> st.seq]
        ELSE [table |-> st.table \cup
                        {[id |-> st.seq + 1, student_id |-> sid, semester_id |-> sem,
                          academic_year_id |-> ay, total_marks |-> total,
                          average_score |-> avg, grade_rank |-> rank]},
              seq |-> st.seq + 1]

\* a variant of add_semester_result that replaces the existing row by a new one
AddSemesterResultReplace(st, sid, sem, ay, total, avg, rank) ==
    [table |-> (st.table \ SemesterRowsByKey(st.table, sid, sem, ay)) \cup
                   {[id |-> st.seq + 1, student_id |-> sid, semester_id |-> sem,
                     academic_year_id |-> ay, total_marks |-> total,
                     average_score |-> avg, grade_rank |-> rank]},
     seq |-> st.seq + 1]

\* add_semester_result: update the existing row in place, else insert a row
\* with the next AUTOINCREMENT id.  st is [table, seq].
AddSemesterResult(st, sid, sem, ay, total, avg, rank) ==
    LET existing == SemesterRowsByKey(st.table, sid, sem, ay)
    IN  IF existing # {}
        THEN LET old == CHOOSE r \in existing : \A o \in existing : r.id <= o.id
             IN  [table |-> (st.table \ {old}) \cup
                        {[id |-> old.id, student_id |-> sid, semester_id |-> sem,
                          academic_year_id |-> ay, total_marks |-> total,
                          average_score |-> avg, grade_rank |-> rank]},
                  seq |-> st.seq]
        ELSE [table |-> st.table \cup
                        {[id |-> st.seq + 1, student_id |-> sid, semester_id |-> sem,
                          academic_year_id |-> ay, total_marks |-> total,
                          average_score |-> avg, grade_rank |-> rank]},
              seq |-> st.seq + 1]

\* a variant of the store loop that writes nothing when one upsert fails
RECURSIVE StoreSemesterLoopAtomic(_, _, _, _, _, _)
StoreSemesterLoopAtomic(st, data, k, ay, sem, failing) ==
    IF k > Len(data) THEN st
    ELSE IF \E j \in 1..Len(data) : data[j].student_id \in failing THEN st
    ELSE StoreSemesterLoopAtomic(
             AddSemesterResult(st, data[k].student_id, sem, ay,
                               data[k].total_marks, data[k].average_score,
                               data[k].grade_rank),
             data, k + 1, ay, sem, failing)

\* the store loop.  failing holds the students whose upsert raises a
\* sqlite3.Error: execute_query rolls the statement back, add_semester_result
\* catches the exception and returns None, and the loop goes on.
RECURSIVE StoreSemesterLoop(_, _, _, _, _, _)
StoreSemesterLoop(st, data, k, ay, sem, failing) ==
    IF k > Len(data) THEN st
    ELSE StoreSemesterLoop(
             IF data[k].student_id \in failing THEN st
             ELSE AddSemesterResult(st, data[k].student_id, sem, ay,
                                    data[k].total_marks, data[k].average_score,
                                    data[k].grade_rank),
             data, k + 1, ay, sem, failing)

\* student_semester_data at the end of a run; <<>> on either early return
SemesterRunData(ay, sem) ==
    LET inYear == StudentsInYear(ay)
    IN  IF Len(inYear) = 0 THEN <<>>
        ELSE IF SemesterExams(ay, sem) = {} THEN <<>>
        ELSE AssignRanks(StudentLoop(inYear, 1, ay, sem))

(***************************************************************************)
(* compute_and_store_yearly_results.                                       *)
(***************************************************************************)
\* query_semester_results: SemesterResults JOIN Students, scanned by row id
SemesterResultsOfYear(ay) ==
    LET rows == {r \in semesterResults :
                    r.academic_year_id = ay
                    /\ \E s \in students : s.id = r.student_id}
        order == SortedSeq({r.id : r \in rows})
        row(i) == LET r == CHOOSE x \in rows : x.id = i
                      s == CHOOSE t \in students : t.id = r.student_id
                  IN  [student_id |-> r.student_id, total_marks |-> r.total_marks,
                       average_score |-> r.average_score,
                       grade_id |-> s.current_grade_id]
    IN  [k \in 1..Len(order) |-> row(order[k])]

\* the aggregation loop: one entry per student, in order of first appearance
RECURSIVE YearlyAggregate(_, _, _)
YearlyAggregate(rows, k, acc) ==
    IF k > Len(rows) THEN acc
    ELSE LET res == rows[k]
             known == \E j \in 1..Len(acc) : acc[j].student_id = res.student_id
             fresh == [student_id |-> res.student_id,
                       total_marks_sum |-> RZero, average_score_sum |-> RZero,
                       num_semesters |-> 0, grade_id |-> res.grade_id]
             acc1 == IF known THEN acc ELSE Append(acc, fresh)
             acc2 == [j \in 1..Len(acc1) |->
                        IF acc1[j].student_id = res.student_id
                        THEN [acc1[j] EXCEPT
                                !.total_marks_sum = RAdd(@, res.total_marks),
                                !.average_score_sum = RAdd(@, res.average_score),
                                !.num_semesters = @ + 1]
                        ELSE acc1[j]]
         IN  YearlyAggregate(rows, k + 1, acc2)

\* final_total_marks and final_average_score of each student
YearlyFinal(acc) ==
    [j \in 1..Len(acc) |->
        [student_id |-> acc[j].student_id,
         total_marks |-> acc[j].total_marks_sum,
         average_score |-> IF acc[j].num_semesters > 0
                           THEN RDivInt(acc[j].average_score_sum, acc[j].num_semesters)
                           ELSE RZero,
         grade_id |-> acc[j].grade_id,
         grade_rank |-> 0]]

\* student_yearly_data at the end of a run; <<>> on the early return
YearlyRunData(ay) ==
    CHOOSE r \in {IF Len(rows) = 0 THEN <<>>
                  ELSE AssignRanks(YearlyFinal(YearlyAggregate(rows, 1, <<>>))) :
                    rows \in {SemesterResultsOfYear(ay)}} : TRUE

\* a variant of the lookup that ignores the academic year
YearlyRowsByStudent(table, sid, ay) ==
    {r \in table : r.student_id = sid}

\* get_yearly_result_by_composite_keys: the rows with that key
YearlyRowsByKey(table, sid, ay) ==
    {r \in table : r.student_id = sid /\ r.academic_year_id = ay}

\* a variant of add_yearly_result that always inserts
AddYearlyResultAppend(st, sid, ay, total, avg, rank) ==
    [table |-> st.table \cup
                   {[id |-> st.seq + 1, student_id |-> sid, academic_year_id |-> ay,
                     total_marks |-> total, average_score |-> avg,
                     grade_rank |-> rank]},
     seq |-> st.seq + 1]

\* a variant of add_yearly_result whose update adds to the stored total
AddYearlyResultAccumulate(st, sid, ay, total, avg, rank) ==
    LET existing == YearlyRowsByKey(st.table, sid, ay)
    IN  IF existing # {}
        THEN [table |-> (st.table \ existing) \cup
                            {[r EXCEPT !.total_marks = RAdd(@, total),
                                       !.average_score = avg,
                                       !.grade_rank = rank] : r \in existing},
              seq |-> st.seq]
        ELSE [table |-> st.table \cup
                        {[id |-> st.seq + 1, student_id |-> sid, academic_year_id |-> ay,
                          total_marks |-> total, average_score |-> avg,
                          grade_rank |-> rank]},
              seq |-> st.seq + 1]

\* add_yearly_result: update the existing row in place, else insert
AddYearlyResult(st, sid, ay, total, avg, rank) ==
    LET existing == YearlyRowsByKey(st.table, sid, ay)
    IN  IF existing # {}
        THEN LET old == CHOOSE r \in existing : \A o \in existing : r.id <= o.id
             IN  [table |-> (st.table \ {old}) \cup
                        {[id |-> old.id, student_id |-> sid, academic_year_id |-> ay,
                          total_marks |-> total, average_score |-> avg,
                          grade_rank |-> rank]},
                  seq |-> st.seq]
        ELSE [table |-> st.table \cup
                        {[id |-> st.seq + 1, student_id |-> sid, academic_year_id |-> ay,
                          total_marks |-> total, average_score |-> avg,
                          grade_rank |-> rank]},
              seq |-> st.seq + 1]

\* the store loop; failing as in StoreSemesterLoop
RECURSIVE StoreYearlyLoop(_, _, _, _, _)
StoreYearlyLoop(st, data, k, ay, failing) ==
    IF k > Len(data) THEN st
    ELSE StoreYearlyLoop(
             IF data[k].student_id \in failing THEN st
             ELSE AddYearlyResult(st, data[k].student_id, ay, data[k].total_marks,
                                  data[k].average_score, data[k].grade_rank),
             data, k + 1, ay, failing)

(***************************************************************************)
(* Inputs of the data-entry operations.                                    *)
(***************************************************************************)
GradeIds == {1, 2}

\* the rows of the AcademicYears table, which no operation of the model changes
AcademicYears == {1, 2}

\* the academic years and semesters a run is asked for: those of the exams
\* and of the stored semester results
AcademicYearIds ==
    {e.academic_year_id : e \in exams}
        \cup {r.academic_year_id : r \in semesterResults}
SemesterIds ==
    {e.semester_id : e \in exams} \cup {r.semester_id : r \in semesterResults}

\* marks a teacher may enter for an exam (any non-negative number is accepted)
MarksFor(e) ==
    CASE e.max_marks = 100 -> {70}
      [] e.max_marks = 30 -> {25, 28}
      [] e.max_marks = 10 -> {8, 9}
      [] e.max_marks = 50 -> {40, 60}
      [] OTHER -> {15}

\* marks a teacher may enter in place of those of an entry
MarksForEntry(row) ==
    IF \E e \in exams : e.id = row.exam_id
    THEN MarksFor(ExamById(row.exam_id)) ELSE {15}

\* hand edits of a stored semester result: fields left None keep their value
HandEdits ==
    {[total_marks |-> <<>>, average_score |-> <<Rat(50)>>, grade_rank |-> <<>>],
     [total_marks |-> <<>>, average_score |-> <<>>, grade_rank |-> <<7>>],
     [total_marks |-> <<Rat(5)>>, average_score |-> <<Rat(95)>>, grade_rank |-> <<1>>]}

\* edits of an enrollment: fields left None keep their value
EnrollmentEdits ==
    {[student_id |-> <<>>, academic_year_id |-> <<>>, grade_id |-> <<2>>],
     [student_id |-> <<>>, academic_year_id |-> <<2>>, grade_id |-> <<>>]}

\* edits of an exam: fields left None keep their value
ExamEdits ==
    {[name |-> <<CAT3>>, semester_id |-> <<>>, academic_year_id |-> <<>>,
      max_marks |-> <<>>],
     [name |-> <<>>, semester_id |-> <<>>, academic_year_id |-> <<>>,
      max_marks |-> <<50>>],
     [name |-> <<>>, semester_id |-> <<2>>, academic_year_id |-> <<>>,
      max_marks |-> <<>>]}

\* the exams a teacher may add to a scope
NewExams == {[name |-> CAT3, max_marks |-> 20], [name |-> Semester1Exam, max_marks |-> 100]}

\* the values a caller may hand to add_semester_result or add_yearly_result
DirectResults == {[total_marks |-> Rat(5), average_score |-> Rat(95), grade_rank |-> 1]}

(***************************************************************************)
(* Data-entry operations (services called by the forms).                   *)
(***************************************************************************)
\* outcome of an operation whose result no caller looks at
NoOutcome == [returned |-> <<>>, message |-> "", attempted |-> <<>>, failed |-> {}]

\* outcome of a compute run: the orchestrator has no return statement with a
\* value (None, written <<>>); the form shows its fixed success message
\* unless an exception reaches it; add_*_result was called for the students
\* of attempted, and raised inside for those of failed
SuccessMessage == "results computed and stored successfully"

RunOutcome(data, failing) ==
    [returned |-> <<>>,
     message |-> SuccessMessage,
     attempted |-> [k \in 1..Len(data) |-> data[k].student_id],
     failed |-> failing]

\* no compute run is in progress (the application has one thread of control)
Idle == [kind |-> "idle", phase |-> "idle", ay |-> 0, sem |-> 0, k |-> 0,
         input |-> <<>>, data |-> <<>>, failed |-> {},
         before |-> [table |-> {}, seq |-> 0]]

Entry ==
    /\ run = Idle
    /\ ops < MaxOps
    /\ ops' = ops + 1
    /\ lastOp' = <<"entry">>
    /\ run' = run

\* a variant of add_exam_result that overwrites the entry of an existing key
AddExamResultOverwrite(sid, eid, sub, marks) ==
    /\ Entry
    /\ examResults' =
           {er \in examResults : ~(er.student_id = sid /\ er.exam_id = eid
                                    /\ er.subject_id = sub)}
               \cup {[student_id |-> sid, exam_id |-> eid,
                      subject_id |-> sub, marks |-> marks]}
    /\ outcome' = [NoOutcome EXCEPT !.returned = <<"ExamResult">>]
    /\ UNCHANGED <<students, enrollments, subjects, exams, stSeq, subSeq,
                   exSeq, semesterResults, yearlyResults, srSeq, yrSeq>>

\* ExamResultService.add_exam_result
AddExamResult(sid, eid, sub, marks) ==
    /\ Entry
    /\ LET existing == {er \in examResults :
                           er.student_id = sid /\ er.exam_id = eid
                           /\ er.subject_id = sub}
       IN  /\ examResults' =
               IF existing # {} THEN examResults
               ELSE examResults \cup
                        {[student_id |-> sid, exam_id |-> eid,
                          subject_id |-> sub, marks |-> marks]}
           /\ outcome' = [NoOutcome EXCEPT
                               !.returned = IF existing # {} THEN <<>>
                                            ELSE <<"ExamResult">>]
    /\ UNCHANGED <<students, enrollments, subjects, exams, stSeq, subSeq,
                   exSeq, semesterResults, yearlyResults, srSeq, yrSeq>>

\* ExamResultService.update_exam_result
UpdateExamResult(row, marks) ==
    /\ Entry
    /\ outcome' = NoOutcome
    /\ row \in examResults
    /\ examResults' = (examResults \ {row}) \cup {[row EXCEPT !.marks = marks]}
    /\ UNCHANGED <<students, enrollments, subjects, exams, stSeq, subSeq,
                   exSeq, semesterResults, yearlyResults, srSeq, yrSeq>>

\* ExamResultService.delete_exam_result
DeleteExamResult(row) ==
    /\ Entry
    /\ outcome' = NoOutcome
    /\ row \in examResults
    /\ examResults' = examResults \ {row}
    /\ UNCHANGED <<students, enrollments, subjects, exams, stSeq, subSeq,
                   exSeq, semesterResults, yearlyResults, srSeq, yrSeq>>

\* StudentService.update_student (current_grade_id)
UpdateStudent(sid, g) ==
    /\ Entry
    /\ outcome' = NoOutcome
    /\ \E s \in students : s.id = sid
    /\ students' = {IF s.id = sid THEN [s EXCEPT !.current_grade_id = g] ELSE s :
                       s \in students}
    /\ UNCHANGED <<enrollments, subjects, exams, stSeq, subSeq, exSeq,
                   examResults, semesterResults, yearlyResults, srSeq, yrSeq>>

\* StudentService.delete_student (no cascade)
DeleteStudent(sid) ==
    /\ Entry
    /\ outcome' = NoOutcome
    /\ \E s \in students : s.id = sid
    /\ students' = {s \in students : s.id # sid}
    /\ UNCHANGED <<enrollments, subjects, exams, stSeq, subSeq, exSeq,
                   examResults, semesterResults, yearlyResults, srSeq, yrSeq>>

\* SemesterResultService.update_semester_result
UpdateSemesterResult(row, edit) ==
    /\ Entry
    /\ outcome' = NoOutcome
    /\ row \in semesterResults
    /\ semesterResults' = (semesterResults \ {row}) \cup
           {[row EXCEPT
               !.total_marks = IF edit.total_marks = <<>> THEN @
                               ELSE edit.total_marks[1],
               !.average_score = IF edit.average_score = <<>> THEN @
                                 ELSE edit.average_score[1],
               !.grade_rank = IF edit.grade_rank = <<>> THEN @
                              ELSE edit.grade_rank[1]]}
    /\ UNCHANGED <<students, enrollments, subjects, exams, stSeq, subSeq,
                   exSeq, examResults, yearlyResults, srSeq, yrSeq>>

\* SemesterResultService.delete_semester_result
DeleteSemesterResult(row) ==
    /\ Entry
    /\ outcome' = NoOutcome
    /\ row \in semesterResults
    /\ semesterResults' = semesterResults \ {row}
    /\ UNCHANGED <<students, enrollments, subjects, exams, stSeq, subSeq,
                   exSeq, examResults, yearlyResults, srSeq, yrSeq>>

(***************************************************************************)
(* Operations on the reference data and on the yearly result rows, and the *)
(* two upserts called by hand.  Each counts for two in the bound on the    *)
(* operations of a behaviour.                                              *)
(* An INSERT or UPDATE that violates a UNIQUE constraint raises            *)
(* sqlite3.IntegrityError: the service catches it, returns None or False   *)
(* and the table is as it was.                                             *)
(***************************************************************************)
Admin ==
    /\ run = Idle
    /\ ops + 2 <= MaxOps
    /\ ops' = ops + 2
    /\ lastOp' = <<"entry">>
    /\ run' = run

\* YearlyResultService.update_yearly_result
UpdateYearlyResult(row, edit) ==
    /\ Admin
    /\ outcome' = NoOutcome
    /\ row \in yearlyResults
    /\ yearlyResults' = (yearlyResults \ {row}) \cup
           {[row EXCEPT
               !.total_marks = IF edit.total_marks = <<>> THEN @
                               ELSE edit.total_marks[1],
               !.average_score = IF edit.average_score = <<>> THEN @
                                 ELSE edit.average_score[1],
               !.grade_rank = IF edit.grade_rank = <<>> THEN @
                              ELSE edit.grade_rank[1]]}
    /\ UNCHANGED <<students, enrollments, subjects, exams, stSeq, subSeq, exSeq,
                   examResults, semesterResults, srSeq, yrSeq>>

\* YearlyResultService.delete_yearly_result
DeleteYearlyResult(row) ==
    /\ Admin
    /\ outcome' = NoOutcome
    /\ row \in yearlyResults
    /\ yearlyResults' = yearlyResults \ {row}
    /\ UNCHANGED <<students, enrollments, subjects, exams, stSeq, subSeq, exSeq,
                   examResults, semesterResults, srSeq, yrSeq>>

\* StudentService.add_student (with a student_id text no student has)
AddStudent(g) ==
    /\ Admin
    /\ students' = students \cup {[id |-> stSeq + 1, current_grade_id |-> g]}
    /\ stSeq' = stSeq + 1
    /\ outcome' = [NoOutcome EXCEPT !.returned = <<"Student">>]
    /\ UNCHANGED <<enrollments, subjects, exams, subSeq, exSeq, examResults,
                   semesterResults, yearlyResults, srSeq, yrSeq>>

\* EnrollmentService.add_enrollment; UNIQUE(student_id, academic_year_id)
AddEnrollment(sid, ay, g) ==
    /\ Admin
    /\ LET taken == \E e \in enrollments :
                        e.student_id = sid /\ e.academic_year_id = ay
       IN  /\ enrollments' =
               IF taken THEN enrollments
               ELSE enrollments \cup
                        {[student_id |-> sid, academic_year_id |-> ay,
                          grade_id |-> g]}
           /\ outcome' = [NoOutcome EXCEPT
                               !.returned = IF taken THEN <<>>
                                            ELSE <<"Enrollment">>]
    /\ UNCHANGED <<students, subjects, exams, stSeq, subSeq, exSeq, examResults,
                   semesterResults, yearlyResults, srSeq, yrSeq>>

\* EnrollmentService.update_enrollment
UpdateEnrollment(row, edit) ==
    /\ Admin
    /\ outcome' = NoOutcome
    /\ row \in enrollments
    /\ LET new == [student_id |-> IF edit.student_id = <<>> THEN row.student_id
                                  ELSE edit.student_id[1],
                   academic_year_id |-> IF edit.academic_year_id = <<>>
                                        THEN row.academic_year_id
                                        ELSE edit.academic_year_id[1],
                   grade_id |-> IF edit.grade_id = <<>> THEN row.grade_id
                                ELSE edit.grade_id[1]]
           taken == \E e \in enrollments \ {row} :
                        /\ e.student_id = new.student_id
                        /\ e.academic_year_id = new.academic_year_id
       IN  enrollments' = IF taken THEN enrollments
                          ELSE (enrollments \ {row}) \cup {new}
    /\ UNCHANGED <<students, subjects, exams, stSeq, subSeq, exSeq, examResults,
                   semesterResults, yearlyResults, srSeq, yrSeq>>

\* EnrollmentService.delete_enrollment
DeleteEnrollment(row) ==
    /\ Admin
    /\ outcome' = NoOutcome
    /\ row \in enrollments
    /\ enrollments' = enrollments \ {row}
    /\ UNCHANGED <<students, subjects, exams, stSeq, subSeq, exSeq, examResults,
                   semesterResults, yearlyResults, srSeq, yrSeq>>

\* SubjectService.add_subject (with a name no subject has)
AddSubject ==
    /\ Admin
    /\ subjects' = subjects \cup {subSeq + 1}
    /\ subSeq' = subSeq + 1
    /\ outcome' = [NoOutcome EXCEPT !.returned = <<"Subject">>]
    /\ UNCHANGED <<students, enrollments, exams, stSeq, exSeq, examResults,
                   semesterResults, yearlyResults, srSeq, yrSeq>>

\* SubjectService.delete_subject (no cascade)
DeleteSubject(sub) ==
    /\ Admin
    /\ outcome' = NoOutcome
    /\ sub \in subjects
    /\ subjects' = subjects \ {sub}
    /\ UNCHANGED <<students, enrollments, exams, stSeq, subSeq, exSeq, examResults,
                   semesterResults, yearlyResults, srSeq, yrSeq>>

\* the exams that hold the UNIQUE(name, semester_id, academic_year_id) key
ExamsByKey(table, name, sem, ay) ==
    {e \in table : e.name = name /\ e.semester_id = sem /\ e.academic_year_id = ay}

\* ExamService.add_exam
AddExam(name, ay, sem, max_marks) ==
    /\ Admin
    /\ LET taken == ExamsByKey(exams, name, sem, ay) # {}
       IN  /\ exams' =
               IF taken THEN exams
               ELSE exams \cup
                        {[id |-> exSeq + 1, name |-> name, academic_year_id |-> ay,
                          semester_id |-> sem, max_marks |-> max_marks]}
           /\ exSeq' = IF taken THEN exSeq ELSE exSeq + 1
           /\ outcome' = [NoOutcome EXCEPT
                               !.returned = IF taken THEN <<>> ELSE <<"Exam">>]
    /\ UNCHANGED <<students, enrollments, subjects, stSeq, subSeq, examResults,
                   semesterResults, yearlyResults, srSeq, yrSeq>>

\* ExamService.update_exam
UpdateExam(row, edit) ==
    /\ Admin
    /\ outcome' = NoOutcome
    /\ row \in exams
    /\ LET new == [id |-> row.id,
                   name |-> IF edit.name = <<>> THEN row.name ELSE edit.name[1],
                   academic_year_id |-> IF edit.academic_year_id = <<>>
                                        THEN row.academic_year_id
                                        ELSE edit.academic_year_id[1],
                   semester_id |-> IF edit.semester_id = <<>> THEN row.semester_id
                                   ELSE edit.semester_id[1],
                   max_marks |-> IF edit.max_marks = <<>> THEN row.max_marks
                                 ELSE edit.max_marks[1]]
       IN  exams' = IF ExamsByKey(exams \ {row}, new.name, new.semester_id,
                                  new.academic_year_id) # {}
                    THEN exams
                    ELSE (exams \ {row}) \cup {new}
    /\ UNCHANGED <<students, enrollments, subjects, stSeq, subSeq, exSeq,
                   examResults, semesterResults, yearlyResults, srSeq, yrSeq>>

\* ExamService.delete_exam (no cascade)
DeleteExam(row) ==
    /\ Admin
    /\ outcome' = NoOutcome
    /\ row \in exams
    /\ exams' = exams \ {row}
    /\ UNCHANGED <<students, enrollments, subjects, stSeq, subSeq, exSeq,
                   examResults, semesterResults, yearlyResults, srSeq, yrSeq>>

\* SemesterResultService.add_semester_result called with values of the caller
EnterSemesterResult(sid, sem, ay, v) ==
    /\ Admin
    /\ \E st \in {AddSemesterResult([table |-> semesterResults, seq |-> srSeq],
                                    sid, sem, ay, v.total_marks, v.average_score,
                                    v.grade_rank)} :
           /\ semesterResults' = st.table
           /\ srSeq' = st.seq
    /\ outcome' = [NoOutcome EXCEPT !.returned = <<"SemesterResult">>]
    /\ UNCHANGED <<students, enrollments, subjects, exams, stSeq, subSeq, exSeq,
                   examResults, yearlyResults, yrSeq>>

\* YearlyResultService.add_yearly_result called with values of the caller
EnterYearlyResult(sid, ay, v) ==
    /\ Admin
    /\ \E st \in {AddYearlyResult([table |-> yearlyResults, seq |-> yrSeq],
                                  sid, ay, v.total_marks, v.average_score,
                                  v.grade_rank)} :
           /\ yearlyResults' = st.table
           /\ yrSeq' = st.seq
    /\ outcome' = [NoOutcome EXCEPT !.returned = <<"YearlyResult">>]
    /\ UNCHANGED <<students, enrollments, subjects, exams, stSeq, subSeq, exSeq,
                   examResults, semesterResults, srSeq>>

(***************************************************************************)
(* The two compute runs.                                                   *)
(***************************************************************************)
\* SemesterResultService.compute_and_store_semester_results
ComputeSemesterWith(ay, sem, failing) ==
    /\ run = Idle
    /\ \E data \in {SemesterRunData(ay, sem)} :
         \E st \in {StoreSemesterLoop([table |-> semesterResults, seq |-> srSeq],
                                      data, 1, ay, sem, failing)} :
           /\ semesterResults' = st.table
           /\ srSeq' = st.seq
           /\ outcome' = RunOutcome(data, failing)
    /\ lastOp' = <<"semester", ay, sem>>
    /\ UNCHANGED <<students, enrollments, subjects, exams, stSeq, subSeq,
                   exSeq, examResults, yearlyResults, yrSeq, ops, run>>

\* a run over a store that accepts every statement
ComputeSemester(ay, sem) == ComputeSemesterWith(ay, sem, {})

\* YearlyResultService.compute_and_store_yearly_results
ComputeYearlyWith(ay, failing) ==
    /\ run = Idle
    /\ \E data \in {YearlyRunData(ay)} :
         \E st \in {StoreYearlyLoop([table |-> yearlyResults, seq |-> yrSeq],
                                    data, 1, ay, failing)} :
           /\ yearlyResults' = st.table
           /\ yrSeq' = st.seq
           /\ outcome' = RunOutcome(data, failing)
    /\ lastOp' = <<"yearly", ay>>
    /\ UNCHANGED <<students, enrollments, subjects, exams, stSeq, subSeq,
                   exSeq, examResults, semesterResults, srSeq, ops, run>>

ComputeYearly(ay) == ComputeYearlyWith(ay, {})

(***************************************************************************)
(* The two compute runs, loop iteration by loop iteration.  The run record *)
(* holds the local variables: input is students_in_year or                 *)
(* semester_results_data, data is student_semester_data or                 *)
(* student_yearly_data, k is the position of the loop of the phase.  It    *)
(* also remembers, for comparison, the result table as the run found it    *)
(* (before) and the students whose add_*_result call raised inside         *)
(* (failed).                                                               *)
(***************************************************************************)
\* query_students, query_exams and the two early returns
StartSemesterRun(ay, sem) ==
    /\ run = Idle
    /\ LET inYear == StudentsInYear(ay)
       IN  IF Len(inYear) = 0 \/ SemesterExams(ay, sem) = {}
           THEN /\ run' = Idle
                /\ lastOp' = <<"semester", ay, sem>>
                /\ outcome' = RunOutcome(<<>>, {})
           ELSE /\ run' = [kind |-> "semester", phase |-> "aggregate", ay |-> ay,
                           sem |-> sem, k |-> 1, input |-> inYear, data |-> <<>>,
                           failed |-> {},
                           before |-> [table |-> semesterResults, seq |-> srSeq]]
                /\ lastOp' = <<"running">>
                /\ outcome' = NoOutcome
    /\ UNCHANGED <<students, enrollments, subjects, exams, stSeq, subSeq,
                   exSeq, examResults, semesterResults, yearlyResults, srSeq,
                   yrSeq, ops>>

\* query_semester_results and the early return
StartYearlyRun(ay) ==
    /\ run = Idle
    /\ LET rows == SemesterResultsOfYear(ay)
       IN  IF Len(rows) = 0
           THEN /\ run' = Idle
                /\ lastOp' = <<"yearly", ay>>
                /\ outcome' = RunOutcome(<<>>, {})
           ELSE /\ run' = [kind |-> "yearly", phase |-> "aggregate", ay |-> ay,
                           sem |-> 0, k |-> 1, input |-> rows, data |-> <<>>,
                           failed |-> {},
                           before |-> [table |-> yearlyResults, seq |-> yrSeq]]
                /\ lastOp' = <<"running">>
                /\ outcome' = NoOutcome
    /\ UNCHANGED <<students, enrollments, subjects, exams, stSeq, subSeq,
                   exSeq, examResults, semesterResults, yearlyResults, srSeq,
                   yrSeq, ops>>

\* a variant that stores each student's result as soon as it is aggregated
AggregateStudentEager ==
    /\ run.kind = "semester" /\ run.phase = "aggregate"
    /\ \E new \in {IF run.k > Len(run.input) THEN <<>>
                    ELSE StudentLoop(SubSeq(run.input, run.k, run.k), 1,
                                     run.ay, run.sem)} :
         /\ run' = IF run.k > Len(run.input)
                   THEN [run EXCEPT !.phase = "rank"]
                   ELSE [run EXCEPT !.data = @ \o new, !.k = @ + 1]
         /\ \E st \in {StoreSemesterLoop([table |-> semesterResults, seq |-> srSeq],
                                          AssignRanks(new), 1, run.ay, run.sem, {})} :
              /\ semesterResults' = st.table
              /\ srSeq' = st.seq
    /\ UNCHANGED <<students, enrollments, subjects, exams, stSeq, subSeq,
                   exSeq, examResults, yearlyResults, yrSeq, lastOp, outcome,
                   ops>>

\* one iteration of "for student_info in students_in_year"; the loop ends
\* when the list is exhausted
AggregateStudent ==
    /\ run.kind = "semester" /\ run.phase = "aggregate"
    /\ run' = IF run.k > Len(run.input)
              THEN [run EXCEPT !.phase = "rank"]
              ELSE [run EXCEPT
                      !.data = @ \o StudentLoop(SubSeq(run.input, run.k, run.k), 1,
                                                run.ay, run.sem),
                      !.k = @ + 1]
    /\ UNCHANGED <<students, enrollments, subjects, exams, stSeq, subSeq,
                   exSeq, examResults, semesterResults, yearlyResults, srSeq,
                   yrSeq, lastOp, outcome, ops>>

\* one iteration of "for res in semester_results_data"; at the end of the
\* list the final totals and averages are taken
AggregateSemesterRow ==
    /\ run.kind = "yearly" /\ run.phase = "aggregate"
    /\ run' = IF run.k > Len(run.input)
              THEN [run EXCEPT !.phase = "rank", !.data = YearlyFinal(@)]
              ELSE [run EXCEPT
                      !.data = YearlyAggregate(SubSeq(run.input, run.k, run.k), 1, @),
                      !.k = @ + 1]
    /\ UNCHANGED <<students, enrollments, subjects, exams, stSeq, subSeq,
                   exSeq, examResults, semesterResults, yearlyResults, srSeq,
                   yrSeq, lastOp, outcome, ops>>

\* "for grade_id in grades_in_year": the ranks of every cohort
RankCohorts ==
    /\ run.phase = "rank"
    /\ run' = [run EXCEPT !.data = AssignRanks(@), !.phase = "store", !.k = 1]
    /\ UNCHANGED <<students, enrollments, subjects, exams, stSeq, subSeq,
                   exSeq, examResults, semesterResults, yearlyResults, srSeq,
                   yrSeq, lastOp, outcome, ops>>

\* one iteration of the store loop of the semester run
StoreSemesterResult ==
    /\ run.kind = "semester" /\ run.phase = "store"
    /\ run.k <= Len(run.data)
    /\ LET d == run.data[run.k]
           st == AddSemesterResult([table |-> semesterResults, seq |-> srSeq],
                                   d.student_id, run.sem, run.ay, d.total_marks,
                                   d.average_score, d.grade_rank)
       IN  /\ semesterResults' = st.table
           /\ srSeq' = st.seq
    /\ run' = [run EXCEPT !.k = @ + 1]
    /\ UNCHANGED <<students, enrollments, subjects, exams, stSeq, subSeq,
                   exSeq, examResults, yearlyResults, yrSeq, lastOp, outcome,
                   ops>>

\* one iteration of the store loop of the yearly run
StoreYearlyResult ==
    /\ run.kind = "yearly" /\ run.phase = "store"
    /\ run.k <= Len(run.data)
    /\ LET d == run.data[run.k]
           st == AddYearlyResult([table |-> yearlyResults, seq |-> yrSeq],
                                 d.student_id, run.ay, d.total_marks,
                                 d.average_score, d.grade_rank)
       IN  /\ yearlyResults' = st.table
           /\ yrSeq' = st.seq
    /\ run' = [run EXCEPT !.k = @ + 1]
    /\ UNCHANGED <<students, enrollments, subjects, exams, stSeq, subSeq,
                   exSeq, examResults, semesterResults, srSeq, lastOp,
                   outcome, ops>>

\* a variant in which the end of the store loop starts the run over
FinishRunRestart ==
    /\ run.phase = "store"
    /\ run.k > Len(run.data)
    /\ run' = [run EXCEPT !.phase = "aggregate", !.k = 1, !.data = <<>>]
    /\ UNCHANGED <<students, enrollments, subjects, exams, stSeq, subSeq,
                   exSeq, examResults, semesterResults, yearlyResults, srSeq,
                   yrSeq, lastOp, outcome, ops>>

\* the store loop is exhausted: the function returns to the form
FinishRun ==
    /\ run.phase = "store"
    /\ run.k > Len(run.data)
    /\ run' = Idle
    /\ lastOp' = IF run.kind = "semester" THEN <<"semester", run.ay, run.sem>>
                 ELSE <<"yearly", run.ay>>
    /\ outcome' = RunOutcome(run.data, run.failed)
    /\ UNCHANGED <<students, enrollments, subjects, exams, stSeq, subSeq,
                   exSeq, examResults, semesterResults, yearlyResults, srSeq,
                   yrSeq, ops>>

(***************************************************************************)
(* Reads of the store that raise sqlite3.Error during a semester run       *)
(* started from the form.  execute_query prints, rolls back and re-raises; *)
(* fetch_all and fetch_one have no handler.                                *)
(***************************************************************************)
\* the dialog of the form when an exception reaches its handler
ErrorMessage == "an error occurred during result computation"

\* what the form's user gets when an exception left the orchestrator
Raised == [returned |-> <<"raised">>, message |-> ErrorMessage,
           attempted |-> <<>>, failed |-> {}]

\* query_students or query_exams raises: the orchestrator has no handler, the
\* exception reaches the form, no later statement of the function executes
StartReadError(ay, sem) ==
    /\ run = Idle
    /\ run' = Idle
    /\ lastOp' = <<"semester_read_error", ay, sem, 0>>
    /\ outcome' = Raised
    /\ UNCHANGED <<students, enrollments, subjects, exams, stSeq, subSeq,
                   exSeq, examResults, semesterResults, yearlyResults, srSeq,
                   yrSeq, ops>>

\* one of the reads of the iteration of "for student_info in
\* students_in_year" for the k-th student raises: the locals, with the
\* entries of the students aggregated so far, are discarded with the frame
AggregateReadError ==
    /\ run.kind = "semester" /\ run.phase = "aggregate"
    /\ run.k <= Len(run.input)
    /\ run' = Idle
    /\ lastOp' = <<"semester_read_error", run.ay, run.sem, run.k>>
    /\ outcome' = Raised
    /\ UNCHANGED <<students, enrollments, subjects, exams, stSeq, subSeq,
                   exSeq, examResults, semesterResults, yearlyResults, srSeq,
                   yrSeq, ops>>

\* the lookup of add_semester_result raises in an iteration of the store
\* loop: "except Exception" prints and returns None, neither update_one nor
\* insert_one is reached, and the loop goes on with the next student
StoreLookupReadError ==
    /\ run.kind = "semester" /\ run.phase = "store"
    /\ run.k <= Len(run.data)
    /\ run' = [run EXCEPT !.k = @ + 1,
                          !.failed = @ \cup {run.data[run.k].student_id}]
    /\ UNCHANGED <<students, enrollments, subjects, exams, stSeq, subSeq,
                   exSeq, examResults, semesterResults, yearlyResults, srSeq,
                   yrSeq, lastOp, outcome, ops>>

\* the function has returned and the form has shown its success dialog; the
\* read of _load_semester_results_to_treeview raises inside the same try,
\* so the error dialog is the last one shown, over the rows already stored
RefreshReadError ==
    /\ run.kind = "semester" /\ run.phase = "store"
    /\ run.k > Len(run.data)
    /\ run' = Idle
    /\ lastOp' = <<"semester_refresh_error", run.ay, run.sem>>
    /\ outcome' = [RunOutcome(run.data, run.failed) EXCEPT !.message = ErrorMessage]
    /\ UNCHANGED <<students, enrollments, subjects, exams, stSeq, subSeq,
                   exSeq, examResults, semesterResults, yearlyResults, srSeq,
                   yrSeq, ops>>

\* the same read raises after one of the two early returns of the function
\* (no student enrolled in the year, no relevant exam in the scope): the
\* form has shown its success dialog for a run that stored nothing, and the
\* error dialog is the last one shown
EarlyReturnRefreshReadError(ay, sem) ==
    /\ run = Idle
    /\ Len(StudentsInYear(ay)) = 0 \/ SemesterExams(ay, sem) = {}
    /\ run' = Idle
    /\ lastOp' = <<"semester_refresh_error", ay, sem>>
    /\ outcome' = [RunOutcome(<<>>, {}) EXCEPT !.message = ErrorMessage]
    /\ UNCHANGED <<students, enrollments, subjects, exams, stSeq, subSeq,
                   exSeq, examResults, semesterResults, yearlyResults, srSeq,
                   yrSeq, ops>>

Next ==
    \/ \E s \in students : \E e \in exams : \E sub \in subjects :
           \E m \in MarksFor(e) : AddExamResult(s.id, e.id, sub, m)
    \/ \E row \in examResults :
           \E m \in MarksForEntry(row) : UpdateExamResult(row, m)
    \/ \E row \in examResults : DeleteExamResult(row)
    \/ \E s \in students : \E g \in GradeIds : UpdateStudent(s.id, g)
    \/ \E s \in students : DeleteStudent(s.id)
    \/ \E row \in semesterResults : \E edit \in HandEdits :
           UpdateSemesterResult(row, edit)
    \/ \E row \in semesterResults : DeleteSemesterResult(row)
    \/ \E row \in yearlyResults : \E edit \in HandEdits :
           UpdateYearlyResult(row, edit)
    \/ \E row \in yearlyResults : DeleteYearlyResult(row)
    \/ \E g \in GradeIds : AddStudent(g)
    \/ \E s \in students : \E ay \in AcademicYears : \E g \in GradeIds :
           AddEnrollment(s.id, ay, g)
    \/ \E row \in enrollments : \E edit \in EnrollmentEdits :
           UpdateEnrollment(row, edit)
    \/ \E row \in enrollments : DeleteEnrollment(row)
    \/ AddSubject
    \/ \E sub \in subjects : DeleteSubject(sub)
    \/ \E e \in NewExams : \E ay \in AcademicYearIds : \E sem \in SemesterIds :
           AddExam(e.name, ay, sem, e.max_marks)
    \/ \E row \in exams : \E edit \in ExamEdits : UpdateExam(row, edit)
    \/ \E row \in exams : DeleteExam(row)
    \/ \E s \in students : \E ay \in AcademicYearIds : \E sem \in SemesterIds :
           \E v \in DirectResults : EnterSemesterResult(s.id, sem, ay, v)
    \/ \E s \in students : \E ay \in AcademicYearIds : \E v \in DirectResults :
           EnterYearlyResult(s.id, ay, v)
    \/ \E ay \in AcademicYearIds : \E sem \in SemesterIds : ComputeSemester(ay, sem)
    \/ \E ay \in AcademicYearIds : ComputeYearly(ay)

(***************************************************************************)
(* Initial stores: reference data entered, no scores, no results.          *)
(***************************************************************************)
\* the reference rows were inserted one after the other and none was deleted
FreshSequences ==
    /\ stSeq = Cardinality(students)
    /\ subSeq = Cardinality(subjects)
    /\ exSeq = Cardinality(exams)

EmptyResults ==
    /\ examResults = {}
    /\ semesterResults = {}
    /\ yearlyResults = {}
    /\ srSeq = 0
    /\ yrSeq = 0
    /\ FreshSequences
    /\ lastOp = <<"init">>
    /\ outcome = NoOutcome
    /\ ops = 0
    /\ run = Idle

\* one student, two subjects; a semester exam, two CATs and a quiz in (1, 1)
Init ==
    /\ students = {[id |-> 1, current_grade_id |-> 1]}
    /\ enrollments = {[student_id |-> 1, academic_year_id |-> 1, grade_id |-> 1]}
    /\ subjects = {1, 2}
    /\ exams = {[id |-> 1, name |-> Semester1Exam,
                 academic_year_id |-> 1, semester_id |-> 1, max_marks |-> 100],
                [id |-> 2, name |-> CAT1,
                 academic_year_id |-> 1, semester_id |-> 1, max_marks |-> 30],
                [id |-> 3, name |-> CAT2,
                 academic_year_id |-> 1, semester_id |-> 1, max_marks |-> 30],
                [id |-> 4, name |-> Quiz,
                 academic_year_id |-> 1, semester_id |-> 1, max_marks |-> 20]}
    /\ EmptyResults

Spec == Init /\ [][Next]_vars

\* three enrolled students of one grade, one subject, a semester exam in (1, 1)
InitRank ==
    /\ students = {[id |-> 1, current_grade_id |-> 1],
                   [id |-> 2, current_grade_id |-> 1],
                   [id |-> 3, current_grade_id |-> 1]}
    /\ enrollments = {[student_id |-> 1, academic_year_id |-> 1, grade_id |-> 1],
                      [student_id |-> 2, academic_year_id |-> 1, grade_id |-> 1],
                      [student_id |-> 3, academic_year_id |-> 1, grade_id |-> 1]}
    /\ subjects = {1}
    /\ exams = {[id |-> 1, name |-> Semester1Exam,
                 academic_year_id |-> 1, semester_id |-> 1, max_marks |-> 10]}
    /\ EmptyResults

SpecRank == InitRank /\ [][Next]_vars

\* two enrolled students and one who is not enrolled, one subject; a semester
\* exam and a quiz in (1, 1)
InitSkip ==
    /\ students = {[id |-> 1, current_grade_id |-> 1],
                   [id |-> 2, current_grade_id |-> 1],
                   [id |-> 3, current_grade_id |-> 1]}
    /\ enrollments = {[student_id |-> 1, academic_year_id |-> 1, grade_id |-> 1],
                      [student_id |-> 2, academic_year_id |-> 1, grade_id |-> 1]}
    /\ subjects = {1}
    /\ exams = {[id |-> 1, name |-> Semester1Exam,
                 academic_year_id |-> 1, semester_id |-> 1, max_marks |-> 100],
                [id |-> 2, name |-> Quiz,
                 academic_year_id |-> 1, semester_id |-> 1, max_marks |-> 20]}
    /\ EmptyResults

SpecSkip == InitSkip /\ [][Next]_vars

\* two students, one subject; a semester exam in (1, 1), a CAT in (1, 2)
InitYear ==
    /\ students = {[id |-> 1, current_grade_id |-> 1],
                   [id |-> 2, current_grade_id |-> 1]}
    /\ enrollments = {[student_id |-> 1, academic_year_id |-> 1, grade_id |-> 1],
                      [student_id |-> 2, academic_year_id |-> 1, grade_id |-> 1]}
    /\ subjects = {1}
    /\ exams = {[id |-> 1, name |-> Semester1Exam,
                 academic_year_id |-> 1, semester_id |-> 1, max_marks |-> 100],
                [id |-> 2, name |-> CAT1,
                 academic_year_id |-> 1, semester_id |-> 2, max_marks |-> 30]}
    /\ EmptyResults

SpecYear == InitYear /\ [][Next]_vars

\* one student, one subject; in (1, 1) two papers of the semester exam, two
\* CATs and a quiz named "Education Quiz"
InitNames ==
    /\ students = {[id |-> 1, current_grade_id |-> 1]}
    /\ enrollments = {[student_id |-> 1, academic_year_id |-> 1, grade_id |-> 1]}
    /\ subjects = {1}
    /\ exams = {[id |-> 1, name |-> Semester1Exam,
                 academic_year_id |-> 1, semester_id |-> 1, max_marks |-> 100],
                [id |-> 2, name |-> Semester1ExamPaper2,
                 academic_year_id |-> 1, semester_id |-> 1, max_marks |-> 50],
                [id |-> 3, name |-> CAT1,
                 academic_year_id |-> 1, semester_id |-> 1, max_marks |-> 30],
                [id |-> 4, name |-> CAT2,
                 academic_year_id |-> 1, semester_id |-> 1, max_marks |-> 30],
                [id |-> 5, name |-> EducationQuiz,
                 academic_year_id |-> 1, semester_id |-> 1, max_marks |-> 20]}
    /\ EmptyResults

SpecNames == InitNames /\ [][Next]_vars

\* sequences of add_exam_result calls on the reference data of Init
NextAdd ==
    \E s \in students : \E e \in exams : \E sub \in subjects :
        \E m \in MarksFor(e) : AddExamResult(s.id, e.id, sub, m)

SpecAdd == Init /\ [][NextAdd]_vars

\* the students a run for the scope would store a result for
SemesterRunStudents(ay, sem) ==
    UNION {{data[k].student_id : k \in 1..Len(data)} :
              data \in {SemesterRunData(ay, sem)}}

YearlyRunStudents(ay) ==
    UNION {{data[k].student_id : k \in 1..Len(data)} : data \in {YearlyRunData(ay)}}

\* the operations, over a store that may raise sqlite3.Error on the upserts
\* of any of a run's students (failing = {} is a run without failure)
NextStoreError ==
    \/ \E s \in students : \E e \in exams : \E sub \in subjects :
           \E m \in MarksFor(e) : AddExamResult(s.id, e.id, sub, m)
    \/ \E row \in examResults :
           \E m \in MarksForEntry(row) : UpdateExamResult(row, m)
    \/ \E row \in examResults : DeleteExamResult(row)
    \/ \E s \in students : \E g \in GradeIds : UpdateStudent(s.id, g)
    \/ \E s \in students : DeleteStudent(s.id)
    \/ \E row \in semesterResults : \E edit \in HandEdits :
           UpdateSemesterResult(row, edit)
    \/ \E row \in semesterResults : DeleteSemesterResult(row)
    \/ \E row \in yearlyResults : \E edit \in HandEdits :
           UpdateYearlyResult(row, edit)
    \/ \E row \in yearlyResults : DeleteYearlyResult(row)
    \/ \E g \in GradeIds : AddStudent(g)
    \/ \E s \in students : \E ay \in AcademicYears : \E g \in GradeIds :
           AddEnrollment(s.id, ay, g)
    \/ \E row \in enrollments : \E edit \in EnrollmentEdits :
           UpdateEnrollment(row, edit)
    \/ \E row \in enrollments : DeleteEnrollment(row)
    \/ AddSubject
    \/ \E sub \in subjects : DeleteSubject(sub)
    \/ \E e \in NewExams : \E ay \in AcademicYearIds : \E sem \in SemesterIds :
           AddExam(e.name, ay, sem, e.max_marks)
    \/ \E row \in exams : \E edit \in ExamEdits : UpdateExam(row, edit)
    \/ \E row \in exams : DeleteExam(row)
    \/ \E s \in students : \E ay \in AcademicYearIds : \E sem \in SemesterIds :
           \E v \in DirectResults : EnterSemesterResult(s.id, sem, ay, v)
    \/ \E s \in students : \E ay \in AcademicYearIds : \E v \in DirectResults :
           EnterYearlyResult(s.id, ay, v)
    \/ \E ay \in AcademicYearIds : \E sem \in SemesterIds :
           \E failing \in SUBSET SemesterRunStudents(ay, sem) :
               ComputeSemesterWith(ay, sem, failing)
    \/ \E ay \in AcademicYearIds :
           \E failing \in SUBSET YearlyRunStudents(ay) :
               ComputeYearlyWith(ay, failing)

\* two enrolled students of one grade, one subject, a semester exam in (1, 1)
\* marked out of 100
InitStoreError ==
    /\ students = {[id |-> 1, current_grade_id |-> 1],
                   [id |-> 2, current_grade_id |-> 1]}
    /\ enrollments = {[student_id |-> 1, academic_year_id |-> 1, grade_id |-> 1],
                      [student_id |-> 2, academic_year_id |-> 1, grade_id |-> 1]}
    /\ subjects = {1}
    /\ exams = {[id |-> 1, name |-> Semester1Exam,
                 academic_year_id |-> 1, semester_id |-> 1, max_marks |-> 100]}
    /\ EmptyResults

SpecStoreError == InitStoreError /\ [][NextStoreError]_vars

\* one student enrolled in the academic years 1 and 2, one subject; a semester
\* exam in (1, 1) and a CAT in (2, 1)
InitTwoYears ==
    /\ students = {[id |-> 1, current_grade_id |-> 1]}
    /\ enrollments = {[student_id |-> 1, academic_year_id |-> 1, grade_id |-> 1],
                      [student_id |-> 1, academic_year_id |-> 2, grade_id |-> 2]}
    /\ subjects = {1}
    /\ exams = {[id |-> 1, name |-> Semester1Exam,
                 academic_year_id |-> 1, semester_id |-> 1, max_marks |-> 100],
                [id |-> 2, name |-> CAT1,
                 academic_year_id |-> 2, semester_id |-> 1, max_marks |-> 30]}
    /\ EmptyResults

SpecTwoYears == InitTwoYears /\ [][Next]_vars

\* one student, one subject; in (1, 1) an exam named "Semester 1 CAT Exam", an
\* exam named "Semester 1 Test" and a CAT
InitMixed ==
    /\ students = {[id |-> 1, current_grade_id |-> 1]}
    /\ enrollments = {[student_id |-> 1, academic_year_id |-> 1, grade_id |-> 1]}
    /\ subjects = {1}
    /\ exams = {[id |-> 1, name |-> Semester1CATExam,
                 academic_year_id |-> 1, semester_id |-> 1, max_marks |-> 30],
                [id |-> 2, name |-> Semester1Test,
                 academic_year_id |-> 1, semester_id |-> 1, max_marks |-> 100],
                [id |-> 3, name |-> CAT1,
                 academic_year_id |-> 1, semester_id |-> 1, max_marks |-> 30]}
    /\ EmptyResults

SpecMixed == InitMixed /\ [][Next]_vars

\* students 1 and 2 of grade 1 and student 3 of grade 2, all enrolled, one
\* subject; a semester exam in (1, 1) marked out of 10
InitGrades ==
    /\ students = {[id |-> 1, current_grade_id |-> 1],
                   [id |-> 2, current_grade_id |-> 1],
                   [id |-> 3, current_grade_id |-> 2]}
    /\ enrollments = {[student_id |-> 1, academic_year_id |-> 1, grade_id |-> 1],
                      [student_id |-> 2, academic_year_id |-> 1, grade_id |-> 1],
                      [student_id |-> 3, academic_year_id |-> 1, grade_id |-> 2]}
    /\ subjects = {1}
    /\ exams = {[id |-> 1, name |-> Semester1Exam,
                 academic_year_id |-> 1, semester_id |-> 1, max_marks |-> 10]}
    /\ EmptyResults

SpecGrades == InitGrades /\ [][Next]_vars

\* score entries are added, changed and deleted, and semester results computed
NextEntries ==
    \/ \E s \in students : \E e \in exams : \E sub \in subjects :
           \E m \in MarksFor(e) : AddExamResult(s.id, e.id, sub, m)
    \/ \E row \in examResults :
           \E m \in MarksForEntry(row) : UpdateExamResult(row, m)
    \/ \E row \in examResults : DeleteExamResult(row)
    \/ \E ay \in AcademicYearIds : \E sem \in SemesterIds : ComputeSemester(ay, sem)

\* two enrolled students of one grade, one subject, a semester exam in (1, 1)
\* marked out of 10 in which the students have scored 9 and 8; no run yet
InitEntered ==
    /\ students = {[id |-> 1, current_grade_id |-> 1],
                   [id |-> 2, current_grade_id |-> 1]}
    /\ enrollments = {[student_id |-> 1, academic_year_id |-> 1, grade_id |-> 1],
                      [student_id |-> 2, academic_year_id |-> 1, grade_id |-> 1]}
    /\ subjects = {1}
    /\ exams = {[id |-> 1, name |-> Semester1Exam,
                 academic_year_id |-> 1, semester_id |-> 1, max_marks |-> 10]}
    /\ examResults = {[student_id |-> 1, exam_id |-> 1, subject_id |-> 1, marks |-> 9],
                      [student_id |-> 2, exam_id |-> 1, subject_id |-> 1, marks |-> 8]}
    /\ semesterResults = {}
    /\ yearlyResults = {}
    /\ srSeq = 0
    /\ yrSeq = 0
    /\ FreshSequences
    /\ lastOp = <<"init">>
    /\ outcome = NoOutcome
    /\ ops = 0
    /\ run = Idle

SpecEntries == InitEntered /\ [][NextEntries]_vars

\* score entries are added, changed and deleted between runs; a semester run
\* started from the form executes statement by statement over a store any
\* of whose reads may raise sqlite3.Error
NextReadError ==
    \/ \E s \in students : \E e \in exams : \E sub \in subjects :
           \E m \in MarksFor(e) : AddExamResult(s.id, e.id, sub, m)
    \/ \E row \in examResults :
           \E m \in MarksForEntry(row) : UpdateExamResult(row, m)
    \/ \E row \in examResults : DeleteExamResult(row)
    \/ \E ay \in AcademicYearIds : \E sem \in SemesterIds : StartSemesterRun(ay, sem)
    \/ \E ay \in AcademicYearIds : \E sem \in SemesterIds : StartReadError(ay, sem)
    \/ AggregateStudent
    \/ AggregateReadError
    \/ RankCohorts
    \/ StoreSemesterResult
    \/ StoreLookupReadError
    \/ FinishRun
    \/ RefreshReadError
    \/ \E ay \in AcademicYearIds : \E sem \in SemesterIds :
           EarlyReturnRefreshReadError(ay, sem)

\* the store of InitEntered with two more exams: a quiz in (1, 2), a scope
\* without relevant exam, and a CAT in (2, 1), a year without enrollment
InitReadError ==
    /\ students = {[id |-> 1, current_grade_id |-> 1],
                   [id |-> 2, current_grade_id |-> 1]}
    /\ enrollments = {[student_id |-> 1, academic_year_id |-> 1, grade_id |-> 1],
                      [student_id |-> 2, academic_year_id |-> 1, grade_id |-> 1]}
    /\ subjects = {1}
    /\ exams = {[id |-> 1, name |-> Semester1Exam,
                 academic_year_id |-> 1, semester_id |-> 1, max_marks |-> 10],
                [id |-> 2, name |-> Quiz,
                 academic_year_id |-> 1, semester_id |-> 2, max_marks |-> 20],
                [id |-> 3, name |-> CAT1,
                 academic_year_id |-> 2, semester_id |-> 1, max_marks |-> 30]}
    /\ examResults = {[student_id |-> 1, exam_id |-> 1, subject_id |-> 1, marks |-> 9],
                      [student_id |-> 2, exam_id |-> 1, subject_id |-> 1, marks |-> 8]}
    /\ semesterResults = {}
    /\ yearlyResults = {}
    /\ srSeq = 0
    /\ yrSeq = 0
    /\ FreshSequences
    /\ lastOp = <<"init">>
    /\ outcome = NoOutcome
    /\ ops = 0
    /\ run = Idle

SpecReadError == InitReadError /\ [][NextReadError]_vars

\* score entries are added, changed and deleted between runs; a run, once
\* started from the form, executes statement by statement
NextRunSteps ==
    \/ \E s \in students : \E e \in exams : \E sub \in subjects :
           \E m \in MarksFor(e) : AddExamResult(s.id, e.id, sub, m)
    \/ \E row \in examResults :
           \E m \in MarksForEntry(row) : UpdateExamResult(row, m)
    \/ \E row \in examResults : DeleteExamResult(row)
    \/ \E ay \in AcademicYearIds : \E sem \in SemesterIds : StartSemesterRun(ay, sem)
    \/ \E ay \in AcademicYearIds : StartYearlyRun(ay)
    \/ AggregateStudent
    \/ AggregateSemesterRow
    \/ RankCohorts
    \/ StoreSemesterResult
    \/ StoreYearlyResult
    \/ FinishRun

\* AggregateStudent can be taken exactly when the student loop of a semester
\* run is in progress: the rest of the action only assigns
AggregateStudentEnabled == run.kind = "semester" /\ run.phase = "aggregate"

\* the run is synchronous code on the only thread: its next statement is
\* always executed.  The second conjunct is weak fairness of
\* AggregateStudent, with its enabling condition written out.
RunFairness ==
    /\ WF_vars(AggregateSemesterRow \/ RankCohorts \/ StoreSemesterResult
                   \/ StoreYearlyResult \/ FinishRun)
    /\ (<>[]AggregateStudentEnabled => []<><<AggregateStudent>>_vars)

SpecRunSteps == InitEntered /\ [][NextRunSteps]_vars /\ RunFairness

(***************************************************************************)
(* Properties.                                                             *)
(***************************************************************************)
SemesterRun == lastOp[1] = "semester"
YearlyRun == lastOp[1] = "yearly"

\* the stored row of a key, when there is one
SemesterRowOf(sid, sem, ay) ==
    CHOOSE r \in semesterResults :
        r.student_id = sid /\ r.semester_id = sem /\ r.academic_year_id = ay

\* every entry of a run's data is stored as computed
StoredAsComputed(data, sem, ay) ==
    \A k \in 1..Len(data) :
        \E r \in semesterResults :
            /\ r.student_id = data[k].student_id
            /\ r.semester_id = sem /\ r.academic_year_id = ay
            /\ r.total_marks = data[k].total_marks
            /\ r.average_score = data[k].average_score
            /\ r.grade_rank = data[k].grade_rank

\* C1: a compute semester results run that repeats the run just before it,
\* with nothing entered in between, leaves the SemesterResults table as the
\* first run left it: same rows, same total_marks, average_score and
\* grade_rank, and no row appended.
C1_SemesterIdempotent ==
    [][(lastOp[1] = "semester" /\ lastOp' = lastOp)
          => (semesterResults' = semesterResults /\ srSeq' = srSeq)]_vars

\* the state a run leaves, in which the same run can be started again: two
\* students ranked 1 and 2 and stored as computed
C1_Witness ==
    /\ SemesterRun
    /\ Cardinality(semesterResults) >= 2
    /\ \E r \in semesterResults : r.grade_rank = 2
    /\ StoredAsComputed(SemesterRunData(lastOp[2], lastOp[3]), lastOp[3], lastOp[2])

\* within one cohort a greater average never has a greater rank, and equal
\* averages have equal ranks
RankMonotone(data) ==
    \A i, j \in 1..Len(data) :
        data[i].grade_id = data[j].grade_id =>
            /\ RGt(data[i].average_score, data[j].average_score)
                   => data[i].grade_rank <= data[j].grade_rank
            /\ data[i].average_score = data[j].average_score
                   => data[i].grade_rank = data[j].grade_rank

\* C2: in the rank assignment of every compute run, semester or yearly, two
\* students of the same grade cohort satisfy: a greater average_score has a
\* rank less than or equal, equal averages have equal ranks.
C2_RankMonotone ==
    /\ SemesterRun => RankMonotone(SemesterRunData(lastOp[2], lastOp[3]))
    /\ YearlyRun => RankMonotone(YearlyRunData(lastOp[2]))

\* a semester run ranked three students of one grade: one ahead, two tied
C2_Witness ==
    /\ SemesterRun
    /\ LET data == SemesterRunData(lastOp[2], lastOp[3])
       IN  /\ StoredAsComputed(data, lastOp[3], lastOp[2])
           /\ \E i, j, k \in 1..Len(data) :
                /\ i # j /\ j # k /\ i # k
                /\ data[i].grade_id = data[j].grade_id
                /\ data[j].grade_id = data[k].grade_id
                /\ RGt(data[i].average_score, data[j].average_score)
                /\ data[j].average_score = data[k].average_score
                /\ data[i].grade_rank = 1
                /\ data[j].grade_rank = 2 /\ data[k].grade_rank = 2

\* the number of entries of the cohort of data[k] with a greater average
GreaterInCohort(data, k) ==
    Cardinality({j \in 1..Len(data) :
        /\ data[j].grade_id = data[k].grade_id
        /\ RGt(data[j].average_score, data[k].average_score)})

CohortSize(data, k) ==
    Cardinality({j \in 1..Len(data) : data[j].grade_id = data[k].grade_id})

CompetitionRanked(data) ==
    \A k \in 1..Len(data) :
        /\ data[k].grade_rank = 1 + GreaterInCohort(data, k)
        /\ data[k].grade_rank <= CohortSize(data, k)
        /\ \E j \in 1..Len(data) :
               data[j].grade_id = data[k].grade_id /\ data[j].grade_rank = 1

\* C3: in every cohort ranked by a compute run, a student's rank is 1 plus
\* the number of students of the cohort with a strictly greater average;
\* every non-empty cohort has a rank 1 and no rank exceeds the cohort size.
C3_CompetitionRanking ==
    /\ SemesterRun => CompetitionRanked(SemesterRunData(lastOp[2], lastOp[3]))
    /\ YearlyRun => CompetitionRanked(YearlyRunData(lastOp[2]))

\* averages 90, 90, 80 in one grade were stored with ranks 1, 1, 3
C3_Witness ==
    /\ SemesterRun
    /\ \E a, b, c \in semesterResults :
        /\ a.student_id # b.student_id
        /\ a.average_score = Rat(90) /\ a.grade_rank = 1
        /\ b.average_score = Rat(90) /\ b.grade_rank = 1
        /\ c.average_score = Rat(80) /\ c.grade_rank = 3
    /\ StoredAsComputed(SemesterRunData(lastOp[2], lastOp[3]), lastOp[3], lastOp[2])

\* Components 1 and 2 of a double are the value n/d it has in exact
\* arithmetic; the double is within 2^(-40) of it
Close(x) == x[3] = 0 \/ (x[5] >= 43 /\ Abs(x[3]) <= 8 * x[4])

RECURSIVE MarksSum(_)
MarksSum(rows) ==
    IF rows = {} THEN 0
    ELSE LET r == CHOOSE x \in rows : TRUE IN r.marks + MarksSum(rows \ {r})

RECURSIVE MaxMarksSum(_)
MaxMarksSum(rows) ==
    IF rows = {} THEN 0
    ELSE LET r == CHOOSE x \in rows : TRUE
         IN  ExamById(r.exam_id).max_marks + MaxMarksSum(rows \ {r})

\* <<marks, max_marks>> of the semester-exam entries of a subject, <<0, 0>>
\* when there is none
SemesterExamChoices(sid, sub, ay, sem) ==
    LET rows == SemExamRows(sid, sub, ay, sem)
    IN  IF rows = {} THEN {<<0, 0>>}
        ELSE {<<er.marks, ExamById(er.exam_id).max_marks>> : er \in rows}

\* C4: in a compute semester results run, for every student and subject,
\* the achieved value of a subject is the semester-exam marks (0 if
\* absent) plus the mean of the student's CAT marks for it (0 if none); the
\* possible value is the semester exam's maximum (0 if absent) plus the mean
\* of those CAT exams' maxima (0 if none).  With n CAT entries:
\* achieved * n = marks * n + sum of CAT marks, and likewise for possible,
\* the stored doubles being these values up to the rounding of the additions
\* and the division.
C4_SubjectAggregation ==
    SemesterRun =>
    \A s \in students : \A sub \in subjects :
    \A ay \in {lastOp[2]} : \A sem \in {lastOp[3]} :
        \A cats \in {CatResults(s.id, sub, ay, sem)},
           a \in {SubjectTotal(s.id, sub, ay, sem)},
           p \in {SubjectPossible(s.id, sub, ay, sem)} :
            LET n == IF cats = {} THEN 1 ELSE Cardinality(cats)
            IN  \E se \in SemesterExamChoices(s.id, sub, ay, sem) :
                    /\ a[1] * n = a[2] * (se[1] * n + MarksSum(cats))
                    /\ p[1] * n = p[2] * (se[2] * n + MaxMarksSum(cats))
                    /\ Close(a) /\ Close(p)

\* semester exam 70/100 with CATs 25/30 and 28/30: achieved 96.5, possible
\* 130, stored with total_marks 96.5 and average_score 74.23076923076923,
\* the double (1/13) * 2^(-44) below 9650/130
C4_Witness ==
    /\ lastOp = <<"semester", 1, 1>>
    /\ SubjectTotal(1, 1, 1, 1) = <<193, 2, 0, 1, 0>>
    /\ SubjectPossible(1, 1, 1, 1) = Rat(130)
    /\ Cardinality(CatResults(1, 1, 1, 1)) = 2
    /\ \E r \in semesterResults :
           /\ r.student_id = 1
           /\ r.total_marks = <<193, 2, 0, 1, 0>>
           /\ r.average_score = <<965, 13, -1, 13, 44>>

RECURSIVE SumOver(_, _, _, _, _)
SumOver(Op(_, _, _, _), sid, subs, ay, sem) ==
    IF subs = {} THEN RZero
    ELSE LET sub == CHOOSE x \in subs : TRUE
         IN  RAdd(Op(sid, sub, ay, sem), SumOver(Op, sid, subs \ {sub}, ay, sem))

\* the row of a student holds, up to the rounding of the operations, the sum
\* of the achieved values of the counted subjects and 100 times that sum over
\* the sum of their possible values
TotalsOfCounted(r, ay, sem) ==
    \A subs \in {CountedSubjects(r.student_id, ay, sem)} :
        \A A \in {SumOver(SubjectTotal, r.student_id, subs, ay, sem)},
           P \in {SumOver(SubjectPossible, r.student_id, subs, ay, sem)} :
            /\ r.total_marks[1] = A[1] /\ r.total_marks[2] = A[2]
            /\ Close(r.total_marks)
            /\ P[1] > 0
            /\ r.average_score[1] * A[2] * P[1]
                   = 100 * A[1] * P[2] * r.average_score[2]
            /\ Close(r.average_score)

\* C5: after a compute semester results run, the row of every student the
\* run computed a result for has total_marks equal to the sum of the achieved
\* values of the counted subjects, and average_score equal to 100 times that
\* sum divided by the sum of their possible values.
C5_SemesterTotals ==
    SemesterRun =>
        \A data \in {SemesterRunData(lastOp[2], lastOp[3])} :
            \A k \in 1..Len(data) :
                \E r \in semesterResults :
                    /\ r.student_id = data[k].student_id
                    /\ r.semester_id = lastOp[3]
                    /\ r.academic_year_id = lastOp[2]
                    /\ TotalsOfCounted(r, lastOp[2], lastOp[3])

\* two counted subjects, 70/100 and 25/30: total 95, average
\* 73.07692307692307 (the double (5/13) * 2^(-45) below 9500/130), which is
\* not the mean of 70 and 83.33
C5_Witness ==
    /\ lastOp = <<"semester", 1, 1>>
    /\ CountedSubjects(1, 1, 1) = {1, 2}
    /\ \E r \in semesterResults :
           /\ r.student_id = 1
           /\ r.total_marks = Rat(95)
           /\ r.average_score = <<950, 13, -5, 13, 45>>
           /\ TotalsOfCounted(r, 1, 1)

ZeroTotals ==
    [total_semester_score |-> RZero, total_possible_semester_score |-> RZero,
     num_subjects_counted |-> 0]

\* C6: in a compute semester results run, a subject whose possible value is
\* 0 for a student adds nothing to the student's total achieved and total
\* possible and is not counted: the three totals are those of the student's
\* other subjects.
C6_SubjectExclusion ==
    SemesterRun =>
    \A s \in students : \A ay \in {lastOp[2]} : \A sem \in {lastOp[3]} :
        \A subs \in {SubjectsWithResults(s.id, ay, sem)},
           tot \in {StudentTotals(s.id, ay, sem)} :
            \A zero \in {{sub \in StudentSubjects(s.id, ay, sem) :
                             SubjectPossible(s.id, sub, ay, sem) = RZero}} :
                /\ \A sub \in zero :
                       tot = SubjectLoop(s.id, ay, sem,
                                         SelectSeq(subs, LAMBDA x : x # sub),
                                         ZeroTotals)
                /\ tot.num_subjects_counted = Len(subs) - Cardinality(zero)

\* a student with a counted subject and a subject that has a quiz score only:
\* the stored row counts the first subject alone
C6_Witness ==
    /\ lastOp = <<"semester", 1, 1>>
    /\ SubjectsWithResults(1, 1, 1) = <<1, 2>>
    /\ SubjectPossible(1, 2, 1, 1) = RZero
    /\ StudentTotals(1, 1, 1).num_subjects_counted = 1
    /\ \E r \in semesterResults :
           /\ r.student_id = 1
           /\ r.total_marks = SubjectTotal(1, 1, 1, 1)
           /\ r.total_marks # RZero

\* the students enrolled in an academic year
EnrolledIn(ay) ==
    {s.id : s \in {t \in students :
                      \E e \in enrollments : /\ e.student_id = t.id
                                             /\ e.academic_year_id = ay}}

\* the enrolled students a run skips: no score entry in the scope, or no
\* counted subject
SkippedIn(ay, sem) ==
    {x \in EnrolledIn(ay) : \/ StudentExamResults(x, ay, sem) = {}
                            \/ CountedSubjects(x, ay, sem) = {}}

WithCountedSubject(ay, sem) ==
    {x \in EnrolledIn(ay) : CountedSubjects(x, ay, sem) # {}}

SemesterRowsOfStudent(table, x) == {r \in table : r.student_id = x}

SemesterWrites(ay, sem) ==
    LET data == SemesterRunData(ay, sem)
        stored == {data[k].student_id : k \in 1..Len(data)}
        ids == {r.student_id : r \in semesterResults \cup semesterResults'}
    IN  /\ stored = WithCountedSubject(ay, sem)
        /\ \A x \in stored :
               \E r \in semesterResults' :
                   /\ r.student_id = x /\ r.semester_id = sem
                   /\ r.academic_year_id = ay
                   /\ TotalsOfCounted(r, ay, sem)
        /\ \A x \in ids \ stored :
               SemesterRowsOfStudent(semesterResults', x)
                   = SemesterRowsOfStudent(semesterResults, x)
        /\ Len(data) = Cardinality(EnrolledIn(ay)) - Cardinality(SkippedIn(ay, sem))

\* C7: a compute semester results run for (Y, S) inserts or updates a row
\* exactly for the students enrolled in Y that have at least one counted
\* subject in (Y, S); every other student keeps the rows they had, unmodified,
\* and gets no new row; the number of rows written is the enrolled count
\* minus the number of skipped students.
C7_WrittenExactlyForCounted ==
    [][lastOp'[1] = "semester" => SemesterWrites(lastOp'[2], lastOp'[3])]_vars

\* after a run: student 1 has a counted subject and a row holding the
\* computed totals; student 2, enrolled, has no score entry left and keeps the
\* row of an earlier run; student 3 is not enrolled
C7_Witness ==
    /\ lastOp = <<"semester", 1, 1>>
    /\ WithCountedSubject(1, 1) = {1}
    /\ SkippedIn(1, 1) = {2}
    /\ \E r \in semesterResults : r.student_id = 1 /\ TotalsOfCounted(r, 1, 1)
    /\ \E r \in semesterResults : r.student_id = 2 /\ r.total_marks = Rat(70)
    /\ Cardinality(semesterResults) = 2

SemesterRowsOfYear(sid, ay) ==
    {r \in semesterResults : r.student_id = sid /\ r.academic_year_id = ay}

RECURSIVE TotalMarksSum(_)
TotalMarksSum(rows) ==
    IF rows = {} THEN RZero
    ELSE LET r == CHOOSE x \in rows : TRUE
         IN  RAdd(r.total_marks, TotalMarksSum(rows \ {r}))

RECURSIVE AverageScoreSum(_)
AverageScoreSum(rows) ==
    IF rows = {} THEN RZero
    ELSE LET r == CHOOSE x \in rows : TRUE
         IN  RAdd(r.average_score, AverageScoreSum(rows \ {r}))

\* C8: immediately after a compute yearly results run for Y, every
\* YearlyResult row for Y has total_marks equal to the sum of total_marks over
\* the student's SemesterResult rows for Y, and average_score equal to the
\* arithmetic mean of those rows' average_score (up to the rounding of the
\* additions and the division).
C8_YearlyTotals ==
    YearlyRun =>
        \A y \in yearlyResults :
            y.academic_year_id = lastOp[2] =>
                LET rows == SemesterRowsOfYear(y.student_id, lastOp[2])
                    sum == AverageScoreSum(rows)
                IN  /\ y.total_marks = TotalMarksSum(rows)
                    /\ Close(y.average_score)
                    /\ rows # {} =>
                           y.average_score[1] * sum[2] * Cardinality(rows)
                               = sum[1] * y.average_score[2]

UniqueSemesterKey ==
    \A r1, r2 \in semesterResults :
        (\/ r1.id = r2.id
         \/ /\ r1.student_id = r2.student_id
            /\ r1.semester_id = r2.semester_id
            /\ r1.academic_year_id = r2.academic_year_id) => r1 = r2

SameSemesterKey(r1, r2) ==
    /\ r1.student_id = r2.student_id
    /\ r1.semester_id = r2.semester_id
    /\ r1.academic_year_id = r2.academic_year_id

\* a run keeps every row under its id and key, and a row with a new id has a
\* key no row had
SemesterUpsert ==
    /\ \A r \in semesterResults :
           \E r2 \in semesterResults' : r2.id = r.id /\ SameSemesterKey(r, r2)
    /\ \A r2 \in semesterResults' :
           (\A r \in semesterResults : r.id # r2.id) =>
               /\ r2.id > srSeq
               /\ \A r \in semesterResults : ~SameSemesterKey(r, r2)

\* C9: the SemesterResults table never holds two rows for one (student,
\* semester, academic year); a compute semester results run inserts a row
\* only when the key is absent and otherwise overwrites the existing row,
\* which keeps its record id.
C9_SemesterUpsert ==
    /\ []UniqueSemesterKey
    /\ [][lastOp'[1] = "semester" => SemesterUpsert]_vars

\* a run has overwritten row 1: the yearly result still shows the total 25 the
\* row held before the CAT score was changed to 28
C9_Witness ==
    /\ lastOp = <<"semester", 1, 1>>
    /\ srSeq = 1
    /\ \E r \in semesterResults : r.id = 1 /\ r.total_marks = Rat(28)
    /\ \E y \in yearlyResults : y.student_id = 1 /\ y.total_marks = Rat(25)

UniqueYearlyKey ==
    \A y1, y2 \in yearlyResults :
        (y1.student_id = y2.student_id
         /\ y1.academic_year_id = y2.academic_year_id) => y1 = y2

\* after a run for Y every student with a semester result for Y has exactly
\* one yearly row for Y
OneYearlyRowEach ==
    YearlyRun =>
        \A s \in students :
            SemesterRowsOfYear(s.id, lastOp[2]) # {} =>
                Cardinality(YearlyRowsByKey(yearlyResults, s.id, lastOp[2])) = 1

\* a run for Y leaves alone the yearly rows of whoever has no semester result
\* for Y
NoYearlyWriteWithoutSemester(ay) ==
    \A x \in {y.student_id : y \in yearlyResults \cup yearlyResults'} :
        SemesterRowsOfYear(x, ay) = {} =>
            {y \in yearlyResults' : y.student_id = x}
                = {y \in yearlyResults : y.student_id = x}

\* C10: after a compute yearly results run for Y the YearlyResults table
\* holds exactly one row (s, Y) for every student s with at least one
\* SemesterResult row for Y; the run writes no row for a student with none;
\* no run creates a second row for a (student, academic year).
C10_YearlyUpsert ==
    /\ [](UniqueYearlyKey /\ OneYearlyRowEach)
    /\ [][lastOp'[1] = "yearly" => NoYearlyWriteWithoutSemester(lastOp'[2])]_vars

\* student 1 has results in both semesters and one yearly row with their sum;
\* student 2 has an exam score but no semester result and no yearly row
C10_Witness ==
    /\ lastOp = <<"yearly", 1>>
    /\ Cardinality(SemesterRowsOfYear(1, 1)) = 2
    /\ SemesterRowsOfYear(2, 1) = {}
    /\ yrSeq = 1
    /\ \E y \in yearlyResults : y.student_id = 1 /\ y.total_marks = Rat(95)
    /\ \A y \in yearlyResults : y.student_id = 1

AnyRun == SemesterRun \/ YearlyRun

\* no upsert is attempted after one that failed
StopsAtFailure ==
    \A k \in 1..Len(outcome.attempted) :
        \A j \in 1..(k - 1) : outcome.attempted[j] \notin outcome.failed

\* the caller is not told of a success
FailureSurfaced ==
    /\ outcome.message # SuccessMessage
    /\ outcome.returned # <<>>

\* C11: when the upsert of a student's result fails during a compute
\* semester results or compute yearly results run, the run stops at that
\* student, attempting no upsert for the students after it, and the caller
\* is given the failure rather than a success.
C11_StopsAndSurfaces ==
    (AnyRun /\ outcome.failed # {}) => (StopsAtFailure /\ FailureSurfaced)

\* the values a run computed for the students stored before the first failure
\* are in the table after the run
EarlierSemesterUpsertsKept(data, failed, sem, ay) ==
    \A k \in 1..Len(data) :
        (/\ \A j \in 1..k : data[j].student_id \notin failed
         /\ \E j \in (k + 1)..Len(data) : data[j].student_id \in failed) =>
            \E r \in semesterResults' :
                /\ r.student_id = data[k].student_id
                /\ r.semester_id = sem /\ r.academic_year_id = ay
                /\ r.total_marks = data[k].total_marks
                /\ r.average_score = data[k].average_score
                /\ r.grade_rank = data[k].grade_rank

EarlierYearlyUpsertsKept(data, failed, ay) ==
    \A k \in 1..Len(data) :
        (/\ \A j \in 1..k : data[j].student_id \notin failed
         /\ \E j \in (k + 1)..Len(data) : data[j].student_id \in failed) =>
            \E r \in yearlyResults' :
                /\ r.student_id = data[k].student_id
                /\ r.academic_year_id = ay
                /\ r.total_marks = data[k].total_marks
                /\ r.average_score = data[k].average_score
                /\ r.grade_rank = data[k].grade_rank

\* C12: when an upsert fails part-way through a compute run, every row
\* upserted earlier in the same run holds its newly written values after the
\* run: nothing of the batch is rolled back.
C12_NoBatchRollback ==
    [][/\ (lastOp'[1] = "semester" /\ outcome'.failed # {}) =>
              \A data \in {SemesterRunData(lastOp'[2], lastOp'[3])} :
                  EarlierSemesterUpsertsKept(data, outcome'.failed,
                                             lastOp'[3], lastOp'[2])
       /\ (lastOp'[1] = "yearly" /\ outcome'.failed # {}) =>
              \A data \in {YearlyRunData(lastOp'[2])} :
                  EarlierYearlyUpsertsKept(data, outcome'.failed, lastOp'[2])]_vars

\* a run over two students in which the upsert of student 2 failed: the row
\* of student 1 is stored, student 2 has none
C12_Witness ==
    /\ lastOp = <<"semester", 1, 1>>
    /\ outcome.attempted = <<1, 2>>
    /\ outcome.failed = {2}
    /\ \E r \in semesterResults :
           r.student_id = 1 /\ r.total_marks = Rat(70) /\ r.grade_rank = 1
    /\ \A r \in semesterResults : r.student_id # 2

\* the caller holds a success indication carrying the number of students
\* processed
SuccessWithCount(n) == outcome.returned = <<"success", n>>

\* the caller holds an error naming a student or grade at which the run failed
ErrorAtStudent ==
    /\ Len(outcome.returned) = 2
    /\ outcome.returned[1] = "error"
    /\ outcome.returned[2] \in outcome.failed

\* C19: each compute run gives its caller either a success indication that
\* carries the number of students processed in the run, or an error that
\* identifies what failed and at which student or grade.
C19_CountOrError ==
    AnyRun => \/ (outcome.failed = {} /\ SuccessWithCount(Len(outcome.attempted)))
              \/ (outcome.failed # {} /\ ErrorAtStudent)

ExamsOfScope(ay, sem) ==
    {e \in exams : e.academic_year_id = ay /\ e.semester_id = sem}

\* the exam is named as a semester exam or as a CAT
NamedSemesterOrCat(e) == PyIn(Semester, e.name) \/ PyIn(CAT, e.name)

NoStudentEnrolled(ay) == EnrolledIn(ay) = {}

NoNamedExam(ay, sem) == \A e \in ExamsOfScope(ay, sem) : ~NamedSemesterOrCat(e)

\* students are enrolled, and none of them has a score in a named exam of
\* the scope
NoQualifyingScore(ay, sem) ==
    /\ EnrolledIn(ay) # {}
    /\ \A er \in examResults : \A e \in ExamsOfScope(ay, sem) :
           (er.student_id \in EnrolledIn(ay) /\ e.id = er.exam_id)
               => ~NamedSemesterOrCat(e)

EmptyRunCase(ay, sem) ==
    NoStudentEnrolled(ay) \/ NoNamedExam(ay, sem) \/ NoQualifyingScore(ay, sem)

\* C13: a compute semester results run for (Y, S) completes without an
\* error and writes no SemesterResult row when no student is enrolled in Y,
\* when no exam of (Y, S) is named as a semester exam or CAT, and when
\* students are enrolled but none has a qualifying exam score in (Y, S).
C13_EmptyRunWritesNothing ==
    [][(lastOp'[1] = "semester" /\ EmptyRunCase(lastOp'[2], lastOp'[3])) =>
           /\ semesterResults' = semesterResults
           /\ srSeq' = srSeq
           /\ outcome'.attempted = <<>>
           /\ outcome'.message = SuccessMessage]_vars

\* C14: every SemesterResult row written by a compute semester results
\* run, for any exams and score entries the data-entry layer accepts, has
\* average_score between 0 and 100 inclusive and grade_rank at least 1.
C14_AverageWithinRange ==
    SemesterRun =>
        \A x \in SemesterRunStudents(lastOp[2], lastOp[3]) :
            \A r \in SemesterRowsByKey(semesterResults, x, lastOp[3], lastOp[2]) :
                /\ RGe(r.average_score, RZero)
                /\ RGe(Rat(100), r.average_score)
                /\ r.grade_rank >= 1

\* the entries among rows whose exam is named as a semester exam or a CAT
NamedEntries(rows) == {er \in rows : NamedSemesterOrCat(ExamById(er.exam_id))}

\* the subject's values are those of the entries of named exams alone
FromNamedEntriesOnly(sid, sub, ay, sem) ==
    LET cats == NamedEntries(CatResults(sid, sub, ay, sem))
        rows == NamedEntries(SemExamRows(sid, sub, ay, sem))
        choices == IF rows = {} THEN {<<0, 0>>}
                   ELSE {<<er.marks, ExamById(er.exam_id).max_marks>> : er \in rows}
        n == IF cats = {} THEN 1 ELSE Cardinality(cats)
        a == SubjectTotal(sid, sub, ay, sem)
        p == SubjectPossible(sid, sub, ay, sem)
    IN  \E se \in choices :
            /\ a[1] * n = a[2] * (se[1] * n + MarksSum(cats))
            /\ p[1] * n = p[2] * (se[2] * n + MaxMarksSum(cats))
            /\ Close(a) /\ Close(p)

\* C16: a score entry of an exam whose name contains neither "Semester" nor
\* "CAT" contributes nothing to a subject's achieved or possible value, hence
\* nothing to total_marks and average_score: the values are those computed
\* from the entries of the named exams alone, with or without such an entry.
C16_UnnamedExamIgnored ==
    \A s \in students : \A sub \in subjects :
    \A ay \in AcademicYearIds : \A sem \in SemesterIds :
        FromNamedEntriesOnly(s.id, sub, ay, sem)

\* C20: at most one semester-exam score entry contributes to a subject's
\* achieved and possible values: with entries in several exams classified as
\* semester exams the values are those of one entry plus the CAT means, not of
\* the entries' sum or mean where these differ from every single entry's marks,
\* whereas every CAT entry enters the CAT mean.
C20_SingleSemesterEntry ==
    \A s \in students : \A sub \in subjects :
    \A ay \in AcademicYearIds : \A sem \in SemesterIds :
        LET rows == SemExamRows(s.id, sub, ay, sem)
            m == Cardinality(rows)
            cats == CatResults(s.id, sub, ay, sem)
            n == IF cats = {} THEN 1 ELSE Cardinality(cats)
            a == SubjectTotal(s.id, sub, ay, sem)
            p == SubjectPossible(s.id, sub, ay, sem)
        IN  rows # {} =>
                /\ \E er \in rows :
                       /\ a[1] * n = a[2] * (er.marks * n + MarksSum(cats))
                       /\ p[1] * n = p[2] * (ExamById(er.exam_id).max_marks * n
                                                 + MaxMarksSum(cats))
                       /\ Close(a) /\ Close(p)
                /\ (m >= 2 /\ \A er \in rows : MarksSum(rows) # er.marks) =>
                       a[1] * n # a[2] * (MarksSum(rows) * n + MarksSum(cats))
                /\ (m >= 2 /\ \A er \in rows : MarksSum(rows) # m * er.marks) =>
                       a[1] * n * m
                           # a[2] * (MarksSum(rows) * n + MarksSum(cats) * m)

\* entries of 70/100 and 40/50 in the two papers and 25/30 in a CAT, computed
\* and stored as 95 out of 130
C20_Witness ==
    /\ lastOp = <<"semester", 1, 1>>
    /\ Cardinality(SemExamRows(1, 1, 1, 1)) = 2
    /\ Cardinality(CatResults(1, 1, 1, 1)) = 1
    /\ SubjectTotal(1, 1, 1, 1) = Rat(95)
    /\ SubjectPossible(1, 1, 1, 1) = Rat(130)
    /\ \E r \in semesterResults : r.total_marks = Rat(95)

\* C15: after a compute semester results run that completes without
\* failure, the row keyed (student, S, Y) of every student the run computed
\* a result for holds exactly the total_marks, average_score and grade_rank
\* computed in the run from the current inputs, whatever it held before.
C15_FullReplace ==
    (SemesterRun /\ outcome.failed = {}) =>
        StoredAsComputed(SemesterRunData(lastOp[2], lastOp[3]), lastOp[3], lastOp[2])

\* a row that had been edited by hand to total 5 and average 95 (the yearly
\* result computed from it still shows them) holds the computed values again
C15_Witness ==
    /\ SemesterRun
    /\ outcome.failed = {}
    /\ \E y \in yearlyResults :
           /\ y.total_marks = Rat(5) /\ y.average_score = Rat(95)
           /\ \E r \in semesterResults :
                  /\ r.student_id = y.student_id
                  /\ r.total_marks \in {Rat(8), Rat(9)}
                  /\ r.average_score \in {Rat(80), Rat(90)}
    /\ StoredAsComputed(SemesterRunData(lastOp[2], lastOp[3]), lastOp[3], lastOp[2])

\* C17: a compute yearly results run that repeats the run just before it,
\* with SemesterResults and student grades unchanged, leaves every
\* YearlyResult row with the same total_marks, average_score and grade_rank
\* and adds no row.
C17_YearlyIdempotent ==
    [][(lastOp[1] = "yearly" /\ lastOp' = lastOp /\ outcome'.failed = {})
          => (yearlyResults' = yearlyResults /\ yrSeq' = yrSeq)]_vars

\* the state a yearly run leaves, in which it can be run again: two students
\* with yearly rows, one of them over two semesters
C17_Witness ==
    /\ lastOp = <<"yearly", 1>>
    /\ outcome.attempted # <<>>
    /\ Cardinality(yearlyResults) = 2
    /\ \E y \in yearlyResults : Cardinality(SemesterRowsOfYear(y.student_id, 1)) = 2
    /\ \A y \in yearlyResults :
           y.total_marks = TotalMarksSum(SemesterRowsOfYear(y.student_id, 1))

SameEntryKey(e1, e2) ==
    /\ e1.student_id = e2.student_id
    /\ e1.exam_id = e2.exam_id
    /\ e1.subject_id = e2.subject_id

UniqueEntryKey ==
    \A e1, e2 \in examResults : SameEntryKey(e1, e2) => e1 = e2

\* an add keeps every entry as it is; it returns a record exactly when it
\* stored one entry under a key that had none
AddKeepsEntries ==
    /\ examResults \subseteq examResults'
    /\ (outcome'.returned = <<>>) <=> (examResults' = examResults)
    /\ Cardinality(examResults' \ examResults) <= 1
    /\ \A new \in examResults' \ examResults :
           \A old \in examResults : ~SameEntryKey(old, new)

\* C18: after any sequence of add_exam_result calls there is at most one
\* score entry per (student, exam, subject); an add for a key that already
\* has an entry returns no record and leaves the stored marks unchanged.
C18_AddNeverOverwrites ==
    /\ []UniqueEntryKey
    /\ [][AddKeepsEntries]_vars

\* three adds of which one met an existing key: two entries, and the last add
\* returned no record
C18_Witness ==
    /\ ops = 3
    /\ Cardinality(examResults) = 2
    /\ outcome.returned = <<>>
    /\ \E er \in examResults : er.exam_id = 2 /\ er.marks = 25

\* the grade of the student of a stored row
GradeOfStudent(sid) == (CHOOSE s \in students : s.id = sid).current_grade_id

\* two stored rows of one scope whose students are in the same grade
SameStoredCohort(r1, r2) ==
    /\ r1.semester_id = r2.semester_id
    /\ r1.academic_year_id = r2.academic_year_id
    /\ GradeOfStudent(r1.student_id) = GradeOfStudent(r2.student_id)

StoredRankConsistent ==
    \A r1, r2 \in semesterResults :
        SameStoredCohort(r1, r2) =>
            /\ RGt(r1.average_score, r2.average_score)
                   => r1.grade_rank <= r2.grade_rank
            /\ r1.average_score = r2.average_score
                   => r1.grade_rank = r2.grade_rank

\* C21: after any sequence of score-entry additions, updates and deletions
\* interleaved with compute semester results runs for one scope, the stored
\* SemesterResult rows of the scope are rank-consistent: among the rows of
\* students of one grade a strictly higher stored average never has a larger
\* stored rank and equal stored averages have equal stored ranks, the rows of
\* students skipped by the latest run included.
C21_StoredRankConsistent == SemesterRun => StoredRankConsistent

\* the rows of a SemesterResults table outside the scope (ay, sem)
OutsideScope(table, ay, sem) ==
    {r \in table : ~(r.academic_year_id = ay /\ r.semester_id = sem)}

\* C22: compute semester results(Y, S) modifies only SemesterResult rows keyed
\* (., S, Y): the SemesterResult rows of every other semester or academic
\* year, all YearlyResult rows, and all exam, score-entry, enrollment and
\* student records are unchanged by the run, so a YearlyResult is not
\* refreshed until compute yearly results is run again.
C22_SemesterRunFrame ==
    [][lastOp'[1] = "semester" =>
          /\ OutsideScope(semesterResults', lastOp'[2], lastOp'[3])
                 = OutsideScope(semesterResults, lastOp'[2], lastOp'[3])
          /\ UNCHANGED <<yearlyResults, yrSeq, exams, stSeq, subSeq, exSeq,
                         examResults, enrollments, students, subjects>>]_vars

\* a run for (1, 1) has stored a row next to a row of semester 2 and a yearly
\* row that still shows the total of semester 2 alone
C22_Witness ==
    /\ lastOp = <<"semester", 1, 1>>
    /\ \E r \in semesterResults :
           r.student_id = 1 /\ r.semester_id = 1 /\ r.total_marks = Rat(70)
    /\ \E r \in semesterResults :
           r.student_id = 1 /\ r.semester_id = 2 /\ r.total_marks = Rat(25)
    /\ \E y \in yearlyResults : y.student_id = 1 /\ y.total_marks = Rat(25)

\* the rows of a YearlyResults table of other academic years than ay
OutsideYear(table, ay) == {y \in table : y.academic_year_id # ay}

\* C23: compute yearly results(Y) modifies only YearlyResult rows keyed
\* (., Y): every SemesterResult row and every YearlyResult row of another
\* academic year is unchanged by the run.
C23_YearlyRunFrame ==
    [][lastOp'[1] = "yearly" =>
          /\ OutsideYear(yearlyResults', lastOp'[2]) = OutsideYear(yearlyResults, lastOp'[2])
          /\ UNCHANGED <<semesterResults, srSeq>>]_vars

\* a run for year 2 has stored its row next to the yearly row of year 1
C23_Witness ==
    /\ lastOp = <<"yearly", 2>>
    /\ \E y \in yearlyResults :
           y.student_id = 1 /\ y.academic_year_id = 1 /\ y.total_marks = Rat(70)
    /\ \E y \in yearlyResults :
           y.student_id = 1 /\ y.academic_year_id = 2 /\ y.total_marks = Rat(25)
    /\ Cardinality(semesterResults) = 2

\* the entry whose marks the aggregation takes as the semester-exam score
SemesterExamEntry(sid, sub, ay, sem) ==
    {er \in SemExamRows(sid, sub, ay, sem) :
        \A o \in SemExamRows(sid, sub, ay, sem) : er.exam_id <= o.exam_id}

\* no entry of the student is both the semester-exam score and a CAT score
CountedOnce(sid, ay, sem) ==
    \A sub \in StudentSubjects(sid, ay, sem) :
        SemesterExamEntry(sid, sub, ay, sem) \cap CatResults(sid, sub, ay, sem) = {}

\* C24: in the per-subject aggregation no single score entry is counted
\* twice: an entry contributes either as the semester-exam score or as one
\* of the CAT scores, never as both, whatever the exam's name (a name that
\* contains both "Semester"..."Exam" and "CAT" included).
C24_NoEntryCountedTwice ==
    SemesterRun =>
        \A sid \in SemesterRunStudents(lastOp[2], lastOp[3]) :
            CountedOnce(sid, lastOp[2], lastOp[3])

\* the entries of the scope made for an exam
EntriesOfExam(e) == {er \in examResults : er.exam_id = e.id}

\* the entry is read by one of the two queries of the per-subject aggregation
CountedInAggregation(er, ay, sem) ==
    \/ er \in SemExamRows(er.student_id, er.subject_id, ay, sem)
    \/ er \in CatResults(er.student_id, er.subject_id, ay, sem)

\* C28: the exam-level relevance test and the per-subject aggregation of
\* compute semester results agree: every exam of the scope whose name
\* contains "Semester" (with or without "Exam") and every exam whose name
\* contains "CAT" passes the relevance gate and has its score entries counted
\* in the per-subject achieved and possible values.
C28_GateAgreesWithAggregation ==
    SemesterRun =>
        \A e \in ExamsOfScope(lastOp[2], lastOp[3]) :
            NamedSemesterOrCat(e) =>
                /\ e \in SemesterExams(lastOp[2], lastOp[3])
                /\ \A er \in EntriesOfExam(e) :
                       CountedInAggregation(er, lastOp[2], lastOp[3])

\* the table and id sequence a semester run found: its own record while it
\* executes, the store itself when it has not passed its first read
TableAtRunStart ==
    IF run = Idle THEN [table |-> semesterResults, seq |-> srSeq] ELSE run.before

\* the run is in its store loop with every enrolled student aggregated and
\* every cohort ranked: its data is the ranked data of the whole scope
AggregatedAndRanked ==
    /\ run.kind = "semester"
    /\ run.phase = "store"
    /\ run.k <= Len(run.data)
    /\ run.data = SemesterRunData(run.ay, run.sem)

\* C25: compute semester results performs no write to SemesterResults before
\* every enrolled student has been aggregated and every grade cohort ranked:
\* a step that changes the table or its id sequence is a step of the store
\* loop over the complete ranked data.  Consequently, when a read of the
\* store fails during aggregation or ranking, the SemesterResults table is
\* identical to what it was before the run started.
C25_NoWriteBeforeStorePhase ==
    [][/\ (semesterResults' # semesterResults \/ srSeq' # srSeq)
              => AggregatedAndRanked
       /\ lastOp'[1] = "semester_read_error"
              => /\ semesterResults' = TableAtRunStart.table
                 /\ srSeq' = TableAtRunStart.seq]_vars

\* the read for student 2 raised after student 1, whose score had changed
\* from 9 to 8 since the last run, was aggregated: the row of student 1 still
\* shows 9 and the caller got the exception
C25_Witness ==
    /\ lastOp = <<"semester_read_error", 1, 1, 2>>
    /\ outcome.returned = <<"raised">>
    /\ outcome.message = ErrorMessage
    /\ \E er \in examResults : er.student_id = 1 /\ er.marks = 8
    /\ \E r \in semesterResults : r.student_id = 1 /\ r.total_marks = Rat(9)
    /\ Cardinality(semesterResults) = 2

\* averages the students of other grades may have in another run
OtherAverages == {Rat(0), Rat(80), Rat(90), Rat(100)}

\* the inputs of a run in which every student outside grade g scored v
OtherGradesScoring(data, g, v) ==
    [k \in 1..Len(data) |->
        IF data[k].grade_id = g THEN data[k]
        ELSE [data[k] EXCEPT !.average_score = v]]

\* the ranks the walk gives to the students of grade g
RanksOfGrade(data, g) ==
    UNION {{<<ranked[k].student_id, ranked[k].grade_rank>> :
               k \in {j \in 1..Len(ranked) : ranked[j].grade_id = g}} :
              ranked \in {AssignRanks(data)}}

\* the ranks of every grade are those of a run in which the students of the
\* other grades have other averages, or no result at all
RanksWithinGradeOnly(data) ==
    \A g \in {data[k].grade_id : k \in 1..Len(data)} :
        /\ RanksOfGrade(InGrade(data, g), g) = RanksOfGrade(data, g)
        /\ \A v \in OtherAverages :
               RanksOfGrade(OtherGradesScoring(data, g, v), g) = RanksOfGrade(data, g)

\* C26: the rank a compute run assigns to a student depends only on the
\* averages of the students ranked in the same grade: for two runs whose
\* inputs differ only in the scores of students of other grades, every
\* student of the unchanged grade receives the same rank in both runs.
C26_RankIndependentOfOtherGrades ==
    /\ SemesterRun => RanksWithinGradeOnly(SemesterRunData(lastOp[2], lastOp[3]))
    /\ YearlyRun => RanksWithinGradeOnly(YearlyRunData(lastOp[2]))

\* a run ranked students 1 and 2 of grade 1 first and second and student 3 of
\* grade 2 first, with the average of student 2
C26_Witness ==
    /\ SemesterRun
    /\ \E r1, r2, r3 \in semesterResults :
           /\ r1.student_id = 1 /\ r2.student_id = 2 /\ r3.student_id = 3
           /\ r1.grade_rank = 1 /\ r2.grade_rank = 2 /\ r3.grade_rank = 1
           /\ r3.average_score = r2.average_score
    /\ GradeOfStudent(1) = 1 /\ GradeOfStudent(2) = 1 /\ GradeOfStudent(3) = 2
    /\ StoredAsComputed(SemesterRunData(lastOp[2], lastOp[3]), lastOp[3], lastOp[2])

\* the grade of the student's enrollment record for the academic year
EnrollmentGrade(sid, ay) ==
    (CHOOSE e \in enrollments :
        e.student_id = sid /\ e.academic_year_id = ay).grade_id

\* the survivors of a run share a cohort exactly when their enrollment
\* records of the year carry the same grade
CohortsByEnrollment(data, ay) ==
    \A i, j \in 1..Len(data) :
        (data[i].grade_id = data[j].grade_id)
            <=> (EnrollmentGrade(data[i].student_id, ay)
                     = EnrollmentGrade(data[j].student_id, ay))

\* C27: in compute semester results(Y, S), two surviving students are ranked
\* in the same cohort if and only if their enrollment records for academic
\* year Y carry the same grade.
C27_CohortIsEnrollmentGrade ==
    SemesterRun =>
        CohortsByEnrollment(SemesterRunData(lastOp[2], lastOp[3]), lastOp[2])

RunActive == run # Idle

\* C29: every compute semester results and compute yearly results run over a
\* finite store terminates: once started it reaches its end (all survivors
\* upserted, or an early exit on empty input) without waiting on any other
\* activity.
C29_RunsTerminate == RunActive ~> ~RunActive

\* a semester run executed statement by statement has returned after the
\* upserts of both students
C29_Witness ==
    /\ run = Idle
    /\ lastOp = <<"semester", 1, 1>>
    /\ outcome.attempted = <<1, 2>>
    /\ StoredAsComputed(SemesterRunData(1, 1), 1, 1)
    /\ Cardinality(semesterResults) = 2
====
